---- MODULE Spec2Model ----
(***************************************************************************)
(* Model of the test-organization engine of snekfx/test-py:                *)
(*   - testpy/discovery.py  : module / test discovery, _is_excluded        *)
(*   - testpy/validator.py  : Violations, validate_rust_tests              *)
(*   - testrs/validator.py  : Violations, validate_rust_tests (CLI gate)   *)
(*   - testrs/runner.py     : run_cargo_test, run_rust_tests               *)
(*   - testrs/cli.py        : cmd_run                                      *)
(* Strings are sequences of one-character strings, so that startswith,     *)
(* endswith, split and slicing are computed as Python computes them.       *)
(* Paths are sequences of path components relative to the repository root. *)
(***************************************************************************)
EXTENDS Integers, Sequences, FiniteSets, TLC

VARIABLES
    ex_name,        \* _is_excluded: argument name
    ex_exclusions,  \* _is_excluded: argument exclusions (list of patterns)
    ex_result,      \* _is_excluded: returned value (meaningful once ex_pc = "done")
    ex_pc           \* _is_excluded: "call" before the call, "done" after it

exclVars == <<ex_name, ex_exclusions, ex_result, ex_pc>>

VARIABLES
    fs,             \* the repository tree: [files, dirs], sets of paths
    config,         \* the resolved Config
    listing,        \* order in which the filesystem enumerates directory entries
    cat_iter,       \* iteration order of the valid_categories set
    v_pc,           \* position in the discovery / validation pass
    modules,        \* result of discover_rust_modules
    tests,          \* result of discover_rust_tests
    violations,     \* result of testpy validate_rust_tests
    rs_violations,  \* result of testrs validate_rust_tests
    first_violations, \* result of the earlier pass, once a second one was made
    cache           \* the dependency cache file [exists, searchable, readable, error, lines]

valVars == <<fs, config, cache, listing, cat_iter, v_pc, modules, tests,
             violations, rs_violations, first_violations>>

VARIABLES
    args,           \* cmd_run: the parsed command line (argparse Namespace)
    repo_found,     \* cmd_run: whether find_repo_root finds a repository root
    ctx_errors,     \* cmd_run: RepoContext.errors, the result of validate_config
    r_pc,           \* cmd_run: position in the command
    host,           \* what the host and the runner process do during the run
    final_cmd,      \* run_cargo_test: the command handed to subprocess.run
    timeout_used,   \* cmd_run: the timeout passed to run_rust_tests
    result,         \* cmd_run: the TestResult returned by run_rust_tests
    returned,       \* cmd_run: returned exit code (meaningful once r_pc = "done")
    runner_calls,   \* number of calls of run_rust_tests in this invocation
    validated       \* whether validate_rust_tests has returned in this invocation

runVars == <<args, repo_found, ctx_errors, r_pc, host, final_cmd, timeout_used, result,
             returned, runner_calls, validated>>

VARIABLES
    h_pc,         \* position in the hub-integration check
    h_packages,   \* result of get_hub_packages
    h_missing,    \* result of validate_hub_integration_tests
    h_again       \* missing_hub_integration of a pass under another Config

hubVars == <<h_pc, h_packages, h_missing, h_again>>

vars == <<exclVars, valVars, runVars, hubVars>>

\* the hub-integration variables when the check is not modelled on its own
HubIdle ==
    /\ h_pc = "idle"
    /\ h_packages = <<>>
    /\ h_missing = <<>>
    /\ h_again = <<>>

\* the _is_excluded variables when no call is modelled
ExclIdle ==
    /\ ex_name = <<>>
    /\ ex_exclusions = <<>>
    /\ ex_result = FALSE
    /\ ex_pc = "idle"

----------------------------------------------------------------------------
(* String literals of the source.                                          *)

s_sanity == <<"s", "a", "n", "i", "t", "y">>
s_smoke == <<"s", "m", "o", "k", "e">>
s_unit == <<"u", "n", "i", "t">>
s_integration == <<"i", "n", "t", "e", "g", "r", "a", "t", "i", "o", "n">>
s_e2e == <<"e", "2", "e">>
s_uat == <<"u", "a", "t">>
s_chaos == <<"c", "h", "a", "o", "s">>
s_bench == <<"b", "e", "n", "c", "h">>
s_regression == <<"r", "e", "g", "r", "e", "s", "s", "i", "o", "n">>
s_sh == <<"s", "h">>
s_archive == <<"_", "a", "r", "c", "h", "i", "v", "e">>
s_adhoc == <<"_", "a", "d", "h", "o", "c">>
s_lib == <<"l", "i", "b">>
s_main == <<"m", "a", "i", "n">>
s_dev == <<"d", "e", "v">>
s_dev_ == <<"d", "e", "v", "_">>
s_dev_star == <<"d", "e", "v", "_", "*">>
s_us == <<"_">>
s_star == <<"*">>
s_dot == <<".">>
s_dot_rs == <<".", "r", "s">>
s_dot_sh == <<".", "s", "h">>
s_mod_rs == <<"m", "o", "d", ".", "r", "s">>
s_tests == <<"t", "e", "s", "t", "s">>
s_src == <<"s", "r", "c">>
s_slash == <<"/">>
s_cargo == <<"c", "a", "r", "g", "o">>
s_test == <<"t", "e", "s", "t">>
s_dashtest == <<"-", "-", "t", "e", "s", "t">>

----------------------------------------------------------------------------
(* Python str operations.                                                  *)

\* str.startswith(prefix)
StartsWith(s, prefix) ==
    /\ Len(prefix) <= Len(s)
    /\ SubSeq(s, 1, Len(prefix)) = prefix

\* str.endswith(suffix)
EndsWith(s, suffix) ==
    /\ Len(suffix) <= Len(s)
    /\ SubSeq(s, Len(s) - Len(suffix) + 1, Len(s)) = suffix

\* s[n:]
DropFirst(s, n) == SubSeq(s, n + 1, Len(s))

\* s[:-n]
DropLast(s, n) == SubSeq(s, 1, Len(s) - n)

\* str.find(ch) + 1 for a one-character ch: 1-based index of the first
\* occurrence, 0 when absent
FindChar(s, ch) ==
    IF \E i \in 1..Len(s) : s[i] = ch
    THEN CHOOSE i \in 1..Len(s) : s[i] = ch /\ \A j \in 1..(i - 1) : s[j] # ch
    ELSE 0

\* str.rfind(ch) + 1
RFindChar(s, ch) ==
    IF \E i \in 1..Len(s) : s[i] = ch
    THEN CHOOSE i \in 1..Len(s) : s[i] = ch /\ \A j \in (i + 1)..Len(s) : s[j] # ch
    ELSE 0

\* str.rsplit(sep, 1): the stem cut at the LAST occurrence of sep
Split1_at_last(s, ch) ==
    LET i == RFindChar(s, ch)
    IN  IF i = 0 THEN <<s>>
        ELSE <<SubSeq(s, 1, i - 1), SubSeq(s, i + 1, Len(s))>>

\* str.split(sep, 1) for a one-character sep: at most two parts, cut at the
\* FIRST occurrence of sep
Split1(s, ch) ==
    LET i == FindChar(s, ch)
    IN  IF i = 0 THEN <<s>>
        ELSE <<SubSeq(s, 1, i - 1), SubSeq(s, i + 1, Len(s))>>

----------------------------------------------------------------------------
(* testpy/discovery.py: _is_excluded                                       *)

\* the loop of _is_excluded with the trailing-wildcard prefix cut one
\* character short (pattern[:-2]), so that 'dev_*' also matches 'dev'
RECURSIVE is_excluded_short_prefix(_, _)
is_excluded_short_prefix(name, exclusions) ==
    IF exclusions = <<>> THEN FALSE
    ELSE LET pattern == Head(exclusions)
             rest == Tail(exclusions)
         IN  IF EndsWith(pattern, s_star)
             THEN IF StartsWith(name, DropLast(pattern, IF Len(pattern) >= 2 THEN 2 ELSE 1))
                  THEN TRUE
                  ELSE is_excluded_short_prefix(name, rest)
             ELSE IF StartsWith(pattern, s_star)
             THEN IF EndsWith(name, DropFirst(pattern, 1))
                  THEN TRUE
                  ELSE is_excluded_short_prefix(name, rest)
             ELSE IF pattern = name THEN TRUE
             ELSE is_excluded_short_prefix(name, rest)

\* _is_excluded(name, exclusions): the first pattern that matches returns
\* True; `continue` skips to the next pattern
RECURSIVE _is_excluded(_, _)
_is_excluded(name, exclusions) ==
    IF exclusions = <<>> THEN FALSE
    ELSE LET pattern == Head(exclusions)
             rest == Tail(exclusions)
         IN  IF EndsWith(pattern, s_star)
             THEN LET prefix == DropLast(pattern, 1)
                  IN  IF StartsWith(name, prefix)
                      THEN IF pattern = s_dev_star /\ name = s_dev
                           THEN _is_excluded(name, rest)
                           ELSE TRUE
                      ELSE _is_excluded(name, rest)
             ELSE IF StartsWith(pattern, s_star)
             THEN LET suffix == DropFirst(pattern, 1)
                  IN  IF EndsWith(name, suffix)
                      THEN TRUE
                      ELSE _is_excluded(name, rest)
             ELSE IF pattern = name THEN TRUE
             ELSE _is_excluded(name, rest)

----------------------------------------------------------------------------
(* Ordering of strings (Python compares str by code point) and of paths.   *)

\* the characters used, in code-point order
AsciiOrder ==
    <<"TAB", " ", "*", "-", ".", "/", "0", "1", "2", "3", "4", "5", "6", "7", "8", "9",
      "C", "T", "_", "a", "b", "c", "d", "e", "f", "g", "h", "i", "j", "k", "l", "m",
      "n", "o", "p", "q", "r", "s", "t", "u", "v", "w", "x", "y", "z">>

\* ord(c), up to an order-preserving renumbering
Code(c) == CHOOSE i \in 1..Len(AsciiOrder) : AsciiOrder[i] = c

\* a < b for str
RECURSIVE StrLess(_, _)
StrLess(a, b) ==
    IF b = <<>> THEN FALSE
    ELSE IF a = <<>> THEN TRUE
    ELSE IF a[1] = b[1] THEN StrLess(Tail(a), Tail(b))
    ELSE Code(a[1]) < Code(b[1])

\* a <= b for str
StrLeq(a, b) == a = b \/ StrLess(a, b)

\* None of an Optional[str]; no str equals it, every character being a
\* one-character string
None == <<"None">>

\* x or ""
OrEmpty(x) == IF x = None THEN <<>> ELSE x

\* bool(x) of an Optional[str]: None and "" are falsy
Truthy(x) == x # None /\ x # <<>>

----------------------------------------------------------------------------
(* pathlib: paths are sequences of components below the repository root.   *)

\* Path.name
PathName(p) == p[Len(p)]

\* Path.parent
PathParent(p) == SubSeq(p, 1, Len(p) - 1)

\* Path.stem of a file name: the name without its last suffix; a leading or
\* trailing dot starts no suffix
NameStem(name) ==
    LET i == RFindChar(name, ".")
    IN  IF i > 1 /\ i < Len(name) THEN SubSeq(name, 1, i - 1) ELSE name

\* Path.stem
PathStem(p) == NameStem(PathName(p))

\* str(path.relative_to(repo_root))
RECURSIVE PathStr(_)
PathStr(p) ==
    IF p = <<>> THEN <<>>
    ELSE IF Len(p) = 1 THEN p[1]
    ELSE p[1] \o s_slash \o PathStr(Tail(p))

\* Path.exists()
Exists(f, p) == p = <<>> \/ p \in f.files \/ p \in f.dirs

\* Path.is_dir()
IsDir(f, p) == p = <<>> \/ p \in f.dirs

\* the entries directly inside directory dir
Children(f, dir) ==
    { p \in f.files \cup f.dirs :
          Len(p) = Len(dir) + 1 /\ SubSeq(p, 1, Len(dir)) = dir }

\* a set of paths as the list the filesystem enumerates: ascending or
\* descending by path, two of the orders a directory scan can produce
RECURSIVE Ascending(_)
Ascending(S) ==
    IF S = {} THEN <<>>
    ELSE LET m == CHOOSE x \in S : \A y \in S : StrLeq(PathStr(x), PathStr(y))
         IN  <<m>> \o Ascending(S \ {m})

Reverse(s) == [i \in 1..Len(s) |-> s[Len(s) + 1 - i]]

Enumerate(S, order) ==
    IF order = "asc" THEN Ascending(S) ELSE Reverse(Ascending(S))

\* dir.glob("*<ext>"), e.g. "*.rs": entries whose name ends with ext
GlobExt(f, dir, ext, order) ==
    Enumerate({ p \in Children(f, dir) : EndsWith(PathName(p), ext) }, order)

\* dir.glob("*/mod.rs")
GlobModRs(f, dir, order) ==
    Enumerate({ p \in f.files \cup f.dirs :
                    /\ Len(p) = Len(dir) + 2
                    /\ SubSeq(p, 1, Len(dir)) = dir
                    /\ PathName(p) = s_mod_rs }, order)

\* dir.iterdir()
IterDir(f, dir, order) == Enumerate(Children(f, dir), order)

----------------------------------------------------------------------------
(* testpy/config.py: Config                                                *)

\* LanguageConfig.timeout: default timeout in seconds
DefaultTimeout == 600

\* the default rust.exclusions of Config._apply_defaults
DefaultRustExclusions ==
    << <<"_", "*">>, s_dev_star, <<"p", "r", "e", "l", "u", "d", "e", "*">>,
       <<"d", "u", "m", "m", "y", "_", "*">>, <<"l", "i", "b", ".", "r", "s">>,
       <<"m", "a", "i", "n", ".", "r", "s">> >>

\* Config(...) after __post_init__: an empty rust.exclusions is replaced by
\* the defaults
Config(test_root, features_root, rust_exclusions, exclude, rust_timeout) ==
    [ test_root |-> test_root,
      features_root |-> features_root,
      rust_exclusions |-> IF rust_exclusions = <<>> THEN DefaultRustExclusions
                          ELSE rust_exclusions,
      exclude |-> exclude,
      rust_timeout |-> rust_timeout ]

----------------------------------------------------------------------------
(* testpy/discovery.py: discover_rust_modules                              *)

valid_categories ==
    { s_sanity, s_smoke, s_unit, s_integration, s_e2e, s_uat, s_chaos,
      s_bench, s_regression }

\* Module(name, path, language); is_public is read by no operation modelled
Module(name, path) == [name |-> name, path |-> path, language |-> "rust"]

\* the first loop of discover_rust_modules over src_dir.glob("*/mod.rs")
RECURSIVE ModulesPattern1(_, _, _)
ModulesPattern1(found, exclusions, acc) ==
    IF found = <<>> THEN acc
    ELSE LET mod_rs == Head(found)
             module_name == PathName(PathParent(mod_rs))
         IN  IF _is_excluded(module_name, exclusions)
             THEN ModulesPattern1(Tail(found), exclusions, acc)
             ELSE ModulesPattern1(Tail(found), exclusions,
                                  Append(acc, Module(module_name, mod_rs)))

\* the second loop of discover_rust_modules without its
\* `if not any(m.name == module_name for m in modules)` test
RECURSIVE ModulesPattern2_no_dedup(_, _, _)
ModulesPattern2_no_dedup(found, exclusions, acc) ==
    IF found = <<>> THEN acc
    ELSE LET module_rs == Head(found)
             module_name == PathStem(module_rs)
         IN  IF module_name \in {s_lib, s_main}
             THEN ModulesPattern2_no_dedup(Tail(found), exclusions, acc)
             ELSE IF _is_excluded(module_name, exclusions)
             THEN ModulesPattern2_no_dedup(Tail(found), exclusions, acc)
             ELSE ModulesPattern2_no_dedup(Tail(found), exclusions,
                                  Append(acc, Module(module_name, module_rs)))

\* the second loop of discover_rust_modules over src_dir.glob("*.rs")
RECURSIVE ModulesPattern2(_, _, _)
ModulesPattern2(found, exclusions, acc) ==
    IF found = <<>> THEN acc
    ELSE LET module_rs == Head(found)
             module_name == PathStem(module_rs)
         IN  IF module_name \in {s_lib, s_main}
             THEN ModulesPattern2(Tail(found), exclusions, acc)
             ELSE IF _is_excluded(module_name, exclusions)
             THEN ModulesPattern2(Tail(found), exclusions, acc)
             ELSE IF ~ \E i \in 1..Len(acc) : acc[i].name = module_name
             THEN ModulesPattern2(Tail(found), exclusions,
                                  Append(acc, Module(module_name, module_rs)))
             ELSE ModulesPattern2(Tail(found), exclusions, acc)

\* list.insert keeping the order of sorted(): after every element whose name
\* is <= the new one (sorted() is stable)
RECURSIVE InsertModule(_, _)
InsertModule(sorted, m) ==
    IF sorted = <<>> THEN <<m>>
    ELSE IF StrLeq(Head(sorted).name, m.name)
    THEN <<Head(sorted)>> \o InsertModule(Tail(sorted), m)
    ELSE <<m>> \o sorted

\* discover_rust_modules returning its list as collected, without sorted()
SortModules_unsorted(ms) == ms

\* sorted(modules, key=lambda m: m.name)
RECURSIVE SortModules(_)
SortModules(ms) ==
    IF ms = <<>> THEN <<>>
    ELSE InsertModule(SortModules(DropLast(ms, 1)), ms[Len(ms)])

discover_rust_modules(f, cfg, order) ==
    LET src_dir == cfg.features_root
        exclusions == cfg.rust_exclusions \o cfg.exclude
    IN  IF ~ Exists(f, src_dir) THEN <<>>
        ELSE SortModules(
                 ModulesPattern2(GlobExt(f, src_dir, s_dot_rs, order), exclusions,
                     ModulesPattern1(GlobModRs(f, src_dir, order), exclusions, <<>>)))

----------------------------------------------------------------------------
(* testpy/discovery.py: discover_rust_tests                                *)

TestFile(path, category, module, is_category_entry) ==
    [ path |-> path, category |-> category, module |-> module,
      language |-> "rust", is_category_entry |-> is_category_entry ]

\* the skip without its `or basename.startswith("dev_")`
SkippedStem_underscore_only(basename) == StartsWith(basename, s_us)

\* basename.startswith("_") or basename.startswith("dev_")
SkippedStem(basename) ==
    StartsWith(basename, s_us) \/ StartsWith(basename, s_dev_)

\* the loop over test_dir.glob("*.rs") keeping the files it cannot parse,
\* as TestFiles without category and module
RECURSIVE TestsFlat_keep_unparsed(_, _)
TestsFlat_keep_unparsed(found, acc) ==
    IF found = <<>> THEN acc
    ELSE LET test_file == Head(found)
             basename == PathStem(test_file)
             parts == Split1(basename, "_")
         IN  IF SkippedStem(basename)
             THEN TestsFlat_keep_unparsed(Tail(found), acc)
             ELSE IF basename \in valid_categories
             THEN TestsFlat_keep_unparsed(Tail(found),
                            Append(acc, TestFile(test_file, basename, None, TRUE)))
             ELSE IF Len(parts) = 2 /\ parts[1] \in valid_categories
             THEN TestsFlat_keep_unparsed(Tail(found),
                            Append(acc, TestFile(test_file, parts[1], parts[2], FALSE)))
             ELSE TestsFlat_keep_unparsed(Tail(found),
                            Append(acc, TestFile(test_file, None, None, FALSE)))

\* the loop over test_dir.glob("*.rs"): category entries and wrappers
RECURSIVE TestsFlat(_, _)
TestsFlat(found, acc) ==
    IF found = <<>> THEN acc
    ELSE LET test_file == Head(found)
             basename == PathStem(test_file)
             parts == Split1(basename, "_")
         IN  IF SkippedStem(basename)
             THEN TestsFlat(Tail(found), acc)
             ELSE IF basename \in valid_categories
             THEN TestsFlat(Tail(found),
                            Append(acc, TestFile(test_file, basename, None, TRUE)))
             ELSE IF Len(parts) = 2 /\ parts[1] \in valid_categories
             THEN TestsFlat(Tail(found),
                            Append(acc, TestFile(test_file, parts[1], parts[2], FALSE)))
             ELSE TestsFlat(Tail(found), acc)

\* the inner loop over category_dir.glob("*.rs") with the category parsed
\* from the stem, as in the flat layout, whenever the stem has a category
\* prefix
RECURSIVE TestsInCategoryDir_reparsed(_, _, _)
TestsInCategoryDir_reparsed(found, category, acc) ==
    IF found = <<>> THEN acc
    ELSE LET test_file == Head(found)
             basename == PathStem(test_file)
             parts == Split1(basename, "_")
             reparsed == Len(parts) = 2 /\ parts[1] \in valid_categories
         IN  IF SkippedStem(basename)
             THEN TestsInCategoryDir_reparsed(Tail(found), category, acc)
             ELSE TestsInCategoryDir_reparsed(Tail(found), category,
                      Append(acc,
                             TestFile(test_file,
                                      IF reparsed THEN parts[1] ELSE category,
                                      IF reparsed THEN parts[2] ELSE basename,
                                      FALSE)))

\* the inner loop over category_dir.glob("*.rs")
RECURSIVE TestsInCategoryDir(_, _, _)
TestsInCategoryDir(found, category, acc) ==
    IF found = <<>> THEN acc
    ELSE LET test_file == Head(found)
             basename == PathStem(test_file)
             module == IF StartsWith(basename, category \o s_us)
                       THEN DropFirst(basename, Len(category) + 1)
                       ELSE basename
         IN  IF SkippedStem(basename)
             THEN TestsInCategoryDir(Tail(found), category, acc)
             ELSE TestsInCategoryDir(Tail(found), category,
                      Append(acc, TestFile(test_file, category, module, FALSE)))

\* the loop `for category in valid_categories`, in the set's iteration order
RECURSIVE TestsInCategoryDirs(_, _, _, _, _)
TestsInCategoryDirs(f, test_dir, cats, order, acc) ==
    IF cats = <<>> THEN acc
    ELSE LET category == Head(cats)
             category_dir == Append(test_dir, category)
         IN  IF ~ Exists(f, category_dir)
             THEN TestsInCategoryDirs(f, test_dir, Tail(cats), order, acc)
             ELSE TestsInCategoryDirs(f, test_dir, Tail(cats), order,
                      TestsInCategoryDir(GlobExt(f, category_dir, s_dot_rs, order),
                                         category, acc))

\* (t.category or "", t.module or "") <= (u.category or "", u.module or "")
TestKeyLeq(t, u) ==
    \/ StrLess(OrEmpty(t.category), OrEmpty(u.category))
    \/ /\ OrEmpty(t.category) = OrEmpty(u.category)
       /\ StrLeq(OrEmpty(t.module), OrEmpty(u.module))

RECURSIVE InsertTest(_, _)
InsertTest(sorted, t) ==
    IF sorted = <<>> THEN <<t>>
    ELSE IF TestKeyLeq(Head(sorted), t)
    THEN <<Head(sorted)>> \o InsertTest(Tail(sorted), t)
    ELSE <<t>> \o sorted

\* sorted(tests, key=lambda t: (t.category or "", t.module or ""))
RECURSIVE SortTests(_)
SortTests(ts) ==
    IF ts = <<>> THEN <<>>
    ELSE InsertTest(SortTests(DropLast(ts, 1)), ts[Len(ts)])

discover_rust_tests(f, cfg, order, cats) ==
    LET test_dir == cfg.test_root
    IN  IF ~ Exists(f, test_dir) THEN <<>>
        ELSE SortTests(
                 TestsInCategoryDirs(f, test_dir, cats, order,
                     TestsFlat(GlobExt(f, test_dir, s_dot_rs, order), <<>>)))

----------------------------------------------------------------------------
(* testpy/validator.py: the hub-integration check                          *)

s_hub == <<"h", "u", "b">>
s_hub_ == <<"h", "u", "b", "_">>
s_deps_rs == <<"d", "e", "p", "s", ".", "r", "s">>
s_Cargo_toml == <<"C", "a", "r", "g", "o", ".", "t", "o", "m", "l">>

\* characters str.strip() removes
Whitespace == {"TAB", " "}

\* str.strip()
RECURSIVE Strip(_)
Strip(s) ==
    IF s = <<>> THEN s
    ELSE IF s[1] \in Whitespace THEN Strip(Tail(s))
    ELSE IF s[Len(s)] \in Whitespace THEN Strip(DropLast(s, 1))
    ELSE s

\* str.split("\t")
RECURSIVE SplitTab(_)
SplitTab(s) ==
    LET i == FindChar(s, "TAB")
    IN  IF i = 0 THEN <<s>>
        ELSE <<SubSeq(s, 1, i - 1)>> \o SplitTab(DropFirst(s, i))

\* sub in s
Contains(s, sub) ==
    \E i \in 0..(Len(s) - Len(sub)) : SubSeq(s, i + 1, i + Len(sub)) = sub

\* sorted(set(xs)) for a list of str
RECURSIVE SortedStrSet(_)
SortedStrSet(S) ==
    IF S = {} THEN <<>>
    ELSE LET m == CHOOSE x \in S : \A y \in S : StrLeq(x, y)
         IN  <<m>> \o SortedStrSet(S \ {m})

Range(s) == { s[i] : i \in 1..Len(s) }

\* the `for line in f` loop of get_hub_packages; the `elif not
\* parts[0].startswith(hub_repo_id): break` sits inside the branch taken only
\* when parts[0].startswith(hub_repo_id), so it is never taken
RECURSIVE HubScan(_, _, _)
HubScan(lines, hub_repo_id, packages) ==
    IF lines = <<>> THEN packages
    ELSE LET line == Head(lines)
             parts == SplitTab(Strip(line))
         IN  IF Len(parts) < 2
             THEN HubScan(Tail(lines), hub_repo_id, packages)
             ELSE IF parts[2] = s_hub /\ Contains(line, s_Cargo_toml)
             THEN HubScan(Tail(lines), parts[1], packages)
             ELSE IF Truthy(hub_repo_id) /\ StartsWith(parts[1], hub_repo_id)
             THEN IF Len(parts) >= 3 /\ parts[1] # hub_repo_id
                  THEN HubScan(Tail(lines), hub_repo_id, Append(packages, parts[3]))
                  ELSE IF ~ StartsWith(parts[1], hub_repo_id)
                  THEN packages
                  ELSE HubScan(Tail(lines), hub_repo_id, packages)
             ELSE HubScan(Tail(lines), hub_repo_id, packages)

\* the except clause of get_hub_packages: `except Exception` catches what
\* open() raises (OSError) and what reading a line raises
\* (UnicodeDecodeError)
HubCaught(kind) == kind \in {"OSError", "UnicodeDecodeError"}

\* what `cache_file.exists()` can do, before the try: when the directory
\* of the cache file cannot be searched, stat() fails with EACCES, which
\* Path.exists() re-raises as PermissionError or turns into False,
\* depending on the Python version
ExistsOutcomes(c) == IF c.searchable THEN {"answers"} ELSE {"answers", "raises"}

\* whether get_hub_packages() raises: exists() raised, or opening or
\* reading the file raised c.error inside the try and no clause caught it
get_hub_packages_raises(c, exists_outcome) ==
    \/ exists_outcome = "raises"
    \/ c.exists /\ ~ c.readable /\ ~ HubCaught(c.error)

\* get_hub_packages() returning the packages as scanned, without
\* sorted(set(...))
get_hub_packages_as_scanned(c) ==
    IF ~ c.exists THEN <<>>
    ELSE IF ~ c.readable THEN <<>>
    ELSE HubScan(c.lines, None, <<>>)

\* get_hub_packages(): c is the dependency cache file
\* [exists, searchable, readable, error, lines]; failing to open or read it raises
\* inside the try and returns []
get_hub_packages(c) ==
    IF ~ c.exists THEN <<>>
    ELSE IF ~ c.readable THEN <<>>
    ELSE SortedStrSet(Range(HubScan(c.lines, None, <<>>)))

has_hub_usage(f) == Exists(f, <<s_src, s_deps_rs>>)

\* the loop of validate_hub_integration_tests over hub_packages
RECURSIVE HubMissing(_, _, _)
HubMissing(f, hub_packages, missing) ==
    IF hub_packages = <<>> THEN missing
    ELSE LET package == Head(hub_packages)
             test_file == <<s_tests, s_integration, s_hub_ \o package \o s_dot_rs>>
         IN  IF ~ Exists(f, test_file)
             THEN HubMissing(f, Tail(hub_packages), Append(missing, package))
             ELSE HubMissing(f, Tail(hub_packages), missing)

validate_hub_integration_tests(f, c) ==
    IF ~ has_hub_usage(f) THEN <<>>
    ELSE LET hub_packages == get_hub_packages(c)
         IN  IF hub_packages = <<>> THEN <<>>
             ELSE HubMissing(f, hub_packages, <<>>)

----------------------------------------------------------------------------
(* testpy/validator.py: Violations and validate_rust_tests                 *)

\* Violations(): seven empty lists
Violations ==
    [ naming |-> <<>>, missing_sanity |-> <<>>, missing_uat |-> <<>>,
      missing_category_entries |-> <<>>, unauthorized_root |-> <<>>,
      invalid_directories |-> <<>>, missing_hub_integration |-> <<>> ]

\* Violations.total() with the hub list left out of the sum
total_without_hub(v) ==
    Len(v.naming) + Len(v.missing_sanity) + Len(v.missing_uat)
        + Len(v.missing_category_entries) + Len(v.unauthorized_root)
        + Len(v.invalid_directories)

\* Violations.total()
total(v) ==
    Len(v.naming) + Len(v.missing_sanity) + Len(v.missing_uat)
        + Len(v.missing_category_entries) + Len(v.unauthorized_root)
        + Len(v.invalid_directories) + Len(v.missing_hub_integration)

\* Violations.is_valid()
is_valid(v) == total(v) = 0

\* [str(p.relative_to(repo_root)) for p in paths]
PathStrs(paths) == [i \in 1..Len(paths) |-> PathStr(paths[i])]

\* [m.name for m in ms]
ModuleNames(ms) == [i \in 1..Len(ms) |-> ms[i].name]

\* the stem rule without the skip of '_' and 'dev_' stems
StemViolates_skip_ignored(test_file) ==
    LET basename == PathStem(test_file)
        parts == Split1(basename, "_")
    IN  /\ basename \notin valid_categories
        /\ \/ Len(parts) # 2
           \/ parts[1] \notin valid_categories

\* the stem rule without the exemption of category entries (the
\* `if basename in valid_categories: continue` of checks 1 and 5)
StemViolates_entries_flagged(test_file) ==
    LET basename == PathStem(test_file)
        parts == Split1(basename, "_")
    IN  /\ ~ SkippedStem(basename)
        /\ \/ Len(parts) # 2
           \/ parts[1] \notin valid_categories

\* the stem rule shared by check 1 and check 5: the file is neither skipped,
\* nor a category entry, nor <category>_<module>
StemViolates(test_file) ==
    LET basename == PathStem(test_file)
        parts == Split1(basename, "_")
    IN  /\ ~ SkippedStem(basename)
        /\ basename \notin valid_categories
        /\ \/ Len(parts) # 2
           \/ parts[1] \notin valid_categories

\* any(t.category == category and t.module == name for t in ts)
HasTest(ts, category, name) ==
    \E i \in 1..Len(ts) : ts[i].category = category /\ ts[i].module = name

\* check 2 / check 3 with the test's category ignored
MissingForAnyCategory(ms, ts, category) ==
    LET Missing(m) == ~ \E i \in 1..Len(ts) : ts[i].module = m.name
    IN  ModuleNames(SelectSeq(ms, Missing))

\* check 2 / check 3: modules without a test of the category
MissingFor(ms, ts, category) ==
    LET Missing(m) == ~ HasTest(ts, category, m.name)
    IN  ModuleNames(SelectSeq(ms, Missing))

\* check 5 over the .sh files only
RootCandidates_sh_only(rs_files, sh_files) == sh_files

\* the files check 5 looks at: list(glob("*.rs")) + list(glob("*.sh"))
RootCandidates(rs_files, sh_files) == rs_files \o sh_files

\* check 4 without the <category>.sh fallback
MissingCategoryEntries_no_sh_fallback(f, test_dir, ts, cats) ==
    LET category_entries_found ==
            { ts[i].category : i \in { j \in 1..Len(ts) : ts[j].is_category_entry } }
        Missing(category) == category \notin category_entries_found
    IN  SelectSeq(cats, Missing)

\* check 4: categories with neither an entry file nor <category>.sh
MissingCategoryEntries(f, test_dir, ts, cats) ==
    LET category_entries_found ==
            { ts[i].category : i \in { j \in 1..Len(ts) : ts[j].is_category_entry } }
        Missing(category) ==
            /\ category \notin category_entries_found
            /\ ~ Exists(f, Append(test_dir, category \o s_dot_sh))
    IN  SelectSeq(cats, Missing)

\* check 6 without the three extra directory names
InvalidDirectories_categories_only(f, test_dir, order) ==
    LET Invalid(subdir) ==
            IsDir(f, subdir) /\ PathName(subdir) \notin valid_categories
    IN  PathStrs(SelectSeq(IterDir(f, test_dir, order), Invalid))

\* check 6: immediate subdirectories that are no valid directory
InvalidDirectories(f, test_dir, order) ==
    LET valid_dirs == valid_categories \cup {s_sh, s_archive, s_adhoc}
        Invalid(subdir) == IsDir(f, subdir) /\ PathName(subdir) \notin valid_dirs
    IN  PathStrs(SelectSeq(IterDir(f, test_dir, order), Invalid))

\* check 6 with its `if test_dir.exists()` guard removed: iterdir() of a
\* missing directory raises FileNotFoundError
validate_raises_unguarded(f, cfg) == ~ IsDir(f, cfg.test_root)

\* whether validate_rust_tests raises: checks 1 to 5 only glob and test
\* existence, which never raise; test_dir.iterdir() of check 6 raises
\* NotADirectoryError when the test root exists and is no directory
validate_raises(f, cfg) ==
    Exists(f, cfg.test_root) /\ ~ IsDir(f, cfg.test_root)

\* validate_rust_tests(repo_root, config) of testpy
validate_rust_tests(f, cfg, c, order, cats) ==
    LET ms == discover_rust_modules(f, cfg, order)
        ts == discover_rust_tests(f, cfg, order, cats)
        test_dir == cfg.test_root
        rs_files == GlobExt(f, test_dir, s_dot_rs, order)
        sh_files == GlobExt(f, test_dir, s_dot_sh, order)
    IN  [ naming |->
              IF Exists(f, test_dir)
              THEN PathStrs(SelectSeq(rs_files, StemViolates))
              ELSE <<>>,
          missing_sanity |-> MissingFor(ms, ts, s_sanity),
          missing_uat |-> MissingFor(ms, ts, s_uat),
          missing_category_entries |-> MissingCategoryEntries(f, test_dir, ts, cats),
          unauthorized_root |->
              IF Exists(f, test_dir)
              THEN PathStrs(SelectSeq(RootCandidates(rs_files, sh_files), StemViolates))
              ELSE <<>>,
          invalid_directories |->
              IF Exists(f, test_dir)
              THEN InvalidDirectories(f, test_dir, order)
              ELSE <<>>,
          missing_hub_integration |-> validate_hub_integration_tests(f, c) ]

----------------------------------------------------------------------------
(* testrs/validator.py: Violations and validate_rust_tests (the CLI gate). *)
(* testrs/discovery.py is not among the sources; the spec describes one    *)
(* Discovery Engine, modelled here after testpy/discovery.py.              *)

rs_discover_rust_modules(f, cfg, order) == discover_rust_modules(f, cfg, order)

rs_discover_rust_tests(f, cfg, order, cats) == discover_rust_tests(f, cfg, order, cats)

\* Violations.total() of testrs: six lists
rs_total(v) ==
    Len(v.naming) + Len(v.missing_sanity) + Len(v.missing_uat)
        + Len(v.missing_category_entries) + Len(v.unauthorized_root)
        + Len(v.invalid_directories)

\* Violations.is_valid() of testrs
rs_is_valid(v) == rs_total(v) = 0

\* validate_rust_tests of testrs with check 5 over glob("*.rs") only: it
\* then lists what check 1 lists
rs_validate_rust_tests_rs_root_only(f, cfg, order, cats) ==
    LET v == validate_rust_tests(f, cfg, [exists |-> FALSE], order, cats)
    IN  [ naming |-> v.naming,
          missing_sanity |-> v.missing_sanity,
          missing_uat |-> v.missing_uat,
          missing_category_entries |-> v.missing_category_entries,
          unauthorized_root |-> v.naming,
          invalid_directories |-> v.invalid_directories ]

\* validate_rust_tests(repo_root, config) of testrs
rs_validate_rust_tests(f, cfg, order, cats) ==
    LET ms == rs_discover_rust_modules(f, cfg, order)
        ts == rs_discover_rust_tests(f, cfg, order, cats)
        test_dir == cfg.test_root
        rs_files == GlobExt(f, test_dir, s_dot_rs, order)
        sh_files == GlobExt(f, test_dir, s_dot_sh, order)
    IN  [ naming |->
              IF Exists(f, test_dir)
              THEN PathStrs(SelectSeq(rs_files, StemViolates))
              ELSE <<>>,
          missing_sanity |-> MissingFor(ms, ts, s_sanity),
          missing_uat |-> MissingFor(ms, ts, s_uat),
          missing_category_entries |-> MissingCategoryEntries(f, test_dir, ts, cats),
          unauthorized_root |->
              IF Exists(f, test_dir)
              THEN PathStrs(SelectSeq(RootCandidates(rs_files, sh_files), StemViolates))
              ELSE <<>>,
          invalid_directories |->
              IF Exists(f, test_dir)
              THEN InvalidDirectories(f, test_dir, order)
              ELSE <<>> ]

\* whether validate_rust_tests of testrs raises (test_dir.iterdir())
rs_validate_raises(f, cfg) ==
    Exists(f, cfg.test_root) /\ ~ IsDir(f, cfg.test_root)

----------------------------------------------------------------------------
(* testrs/runner.py: TestResult, parse_cargo_test_output, run_cargo_test   *)

s_test_result ==
    <<"t", "e", "s", "t", " ", "r", "e", "s", "u", "l", "t", ":">>

s_passed ==
    <<" ", "p", "a", "s", "s", "e", "d">>

s_failed ==
    <<" ", "f", "a", "i", "l", "e", "d">>

s_ignored ==
    <<" ", "i", "g", "n", "o", "r", "e", "d">>

s_finished_in ==
    <<"f", "i", "n", "i", "s", "h", "e", "d", " ", "i", "n", " ">>

s_timeout ==
    <<"t", "i", "m", "e", "o", "u", "t">>

s_gtimeout ==
    <<"g", "t", "i", "m", "e", "o", "u", "t">>

s_timed_out_after ==
    <<"NL", "NL", "T", "e", "s", "t", " ", "e", "x", "e", "c", "u", "t", "i",
      "o", "n", " ", "t", "i", "m", "e", "d", " ", "o", "u", "t", " ", "a",
      "f", "t", "e", "r", " ">>

s_seconds ==
    <<" ", "s", "e", "c", "o", "n", "d", "s">>

s_cargo_not_found ==
    <<"E", "r", "r", "o", "r", ":", " ", "c", "a", "r", "g", "o", " ", "c",
      "o", "m", "m", "a", "n", "d", " ", "n", "o", "t", " ", "f", "o", "u",
      "n", "d", ".", " ", "I", "s", " ", "R", "u", "s", "t", " ", "i", "n",
      "s", "t", "a", "l", "l", "e", "d", "?">>

s_error_executing ==
    <<"E", "r", "r", "o", "r", " ", "e", "x", "e", "c", "u", "t", "i", "n",
      "g", " ", "c", "a", "r", "g", "o", " ", "t", "e", "s", "t", ":", " ">>

Digits == <<"0", "1", "2", "3", "4", "5", "6", "7", "8", "9">>

DigitChars == Range(Digits)

\* int(c) of one digit
DigitVal(c) == (CHOOSE i \in 1..10 : Digits[i] = c) - 1

\* int(s) of a string of digits
RECURSIVE StrInt(_)
StrInt(s) ==
    IF s = <<>> THEN 0
    ELSE StrInt(DropLast(s, 1)) * 10 + DigitVal(s[Len(s)])

\* str(n) of an int n >= 0
RECURSIVE IntStr(_)
IntStr(n) ==
    IF n < 10 THEN <<Digits[n + 1]>>
    ELSE IntStr(n \div 10) \o <<Digits[(n % 10) + 1]>>

\* str.split(ch) for a one-character ch
RECURSIVE SplitAll(_, _)
SplitAll(s, ch) ==
    LET i == FindChar(s, ch)
    IN  IF i = 0 THEN <<s>>
        ELSE <<SubSeq(s, 1, i - 1)>> \o SplitAll(DropFirst(s, i), ch)

\* last index of the longest run of characters of class that starts at p
RunEnd(s, p, class) ==
    CHOOSE q \in p..Len(s) :
        /\ \A k \in p..q : s[k] \in class
        /\ q = Len(s) \/ s[q + 1] \notin class

\* s[p:].startswith(word), p counted from 1
HasAt(s, p, word) ==
    /\ p + Len(word) - 1 <= Len(s)
    /\ SubSeq(s, p, p + Len(word) - 1) = word

\* where `.*?(\d+)<word>` matches in a line from position from on: the first
\* position at which a run of digits is followed by word; 0 when none
FindNumWord(line, from, word) ==
    LET hits == { p \in from..Len(line) :
                      /\ line[p] \in DigitChars
                      /\ HasAt(line, RunEnd(line, p, DigitChars) + 1, word) }
    IN  IF hits = {} THEN 0
        ELSE CHOOSE p \in hits : \A r \in hits : p <= r

\* re.search of the summary pattern within one line ('.' matches no
\* newline): <<passed, failed, ignored>> as the three groups, or <<>>
SummaryMatch(line) ==
    LET starts == { i \in 1..Len(line) : HasAt(line, i, s_test_result) }
    IN  IF starts = {} THEN <<>>
        ELSE
        LET i == CHOOSE x \in starts : \A y \in starts : x <= y
            p1 == FindNumWord(line, i + Len(s_test_result), s_passed)
        IN  IF p1 = 0 THEN <<>>
            ELSE
            LET q1 == RunEnd(line, p1, DigitChars)
                p2 == FindNumWord(line, q1 + 1 + Len(s_passed), s_failed)
            IN  IF p2 = 0 THEN <<>>
                ELSE
                LET q2 == RunEnd(line, p2, DigitChars)
                    p3 == FindNumWord(line, q2 + 1 + Len(s_failed), s_ignored)
                IN  IF p3 = 0 THEN <<>>
                    ELSE << SubSeq(line, p1, q1), SubSeq(line, p2, q2),
                            SubSeq(line, p3, RunEnd(line, p3, DigitChars)) >>

\* the first line of the output that the summary pattern matches
RECURSIVE FirstSummary(_)
FirstSummary(lines) ==
    IF lines = <<>> THEN <<>>
    ELSE IF SummaryMatch(Head(lines)) # <<>> THEN SummaryMatch(Head(lines))
    ELSE FirstSummary(Tail(lines))

\* parse_cargo_test_output(output): (passed, failed, ignored)
parse_cargo_test_output(output) ==
    LET match == FirstSummary(SplitAll(output, "NL"))
    IN  IF match = <<>> THEN <<0, 0, 0>>
        ELSE <<StrInt(match[1]), StrInt(match[2]), StrInt(match[3])>>

\* re.search(r"finished in ([\d.]+)s", output): the group, or <<>>
DurationMatch(output) ==
    LET class == DigitChars \cup {"."}
        hits == { i \in 1..Len(output) :
                      /\ HasAt(output, i, s_finished_in)
                      /\ i + Len(s_finished_in) <= Len(output)
                      /\ output[i + Len(s_finished_in)] \in class
                      /\ HasAt(output,
                               RunEnd(output, i + Len(s_finished_in), class) + 1,
                               <<"s">>) }
    IN  IF hits = {} THEN <<>>
        ELSE LET i == CHOOSE x \in hits : \A y \in hits : x <= y
                 p == i + Len(s_finished_in)
             IN  SubSeq(output, p, RunEnd(output, p, class))

\* whether float(text) raises ValueError for a text of digits and dots: it
\* needs a digit and at most one dot
FloatRaises(text) ==
    \/ Cardinality({ i \in 1..Len(text) : text[i] = "." }) > 1
    \/ ~ \E i \in 1..Len(text) : text[i] \in DigitChars

\* float(text), kept in hundredths of a second (two decimals)
FloatOf(text) ==
    LET d == FindChar(text, ".")
        whole == IF d = 0 THEN text ELSE SubSeq(text, 1, d - 1)
        frac == IF d = 0 THEN <<>> ELSE DropFirst(text, d)
        cents == SubSeq(frac \o <<"0", "0">>, 1, 2)
    IN  StrInt(whole) * 100 + StrInt(cents)

\* float(n) of an int, in hundredths of a second
FloatOfInt(n) == n * 100

\* TestResult(...)
TestResult(passed, failed, ignored, tot, duration, output, exit_code) ==
    [ passed |-> passed, failed |-> failed, ignored |-> ignored, total |-> tot,
      duration |-> duration, output |-> output, exit_code |-> exit_code ]

\* TestResult.success
success(r) == r.exit_code = 0

\* the filter part of run_cargo_test with the module dropped from the exact
\* test target
BuildCmd_category_only(category, module) ==
    IF Truthy(category) /\ Truthy(module)
    THEN <<s_cargo, s_test, s_dashtest, category>>
    ELSE IF Truthy(category) THEN <<s_cargo, s_test, category>>
    ELSE IF Truthy(module) THEN <<s_cargo, s_test, module>>
    ELSE <<s_cargo, s_test>>

\* cmd of run_cargo_test: ["cargo", "test"] and the filter
BuildCmd(category, module) ==
    IF Truthy(category) /\ Truthy(module)
    THEN <<s_cargo, s_test, s_dashtest, category \o s_us \o module>>
    ELSE IF Truthy(category) THEN <<s_cargo, s_test, category>>
    ELSE IF Truthy(module) THEN <<s_cargo, s_test, module>>
    ELSE <<s_cargo, s_test>>

\* find_timeout_command(): path_has is the set of command names
\* shutil.which finds; the path returned is kept as the command name
find_timeout_command(path_has) ==
    IF s_timeout \in path_has THEN s_timeout
    ELSE IF s_gtimeout \in path_has THEN s_gtimeout
    ELSE None

\* final_cmd of run_cargo_test
FinalCmd(cmd, timeout_bin, timeout) ==
    IF Truthy(timeout_bin)
    THEN <<timeout_bin, IntStr(timeout) \o <<"s">>>> \o cmd
    ELSE cmd

\* stdout + stderr the runner process can have produced: a passing run, a
\* failing run, one test binary finished and the next one running, a build
\* error, a summary with a malformed duration, and the message of the
\* timeout wrapper that cannot start cargo
out_ok ==
    <<"r", "u", "n", "n", "i", "n", "g", " ", "3", " ", "t", "e", "s", "t",
      "s", "NL", "t", "e", "s", "t", " ", "r", "e", "s", "u", "l", "t", ":",
      " ", "o", "k", ".", " ", "3", " ", "p", "a", "s", "s", "e", "d", ";",
      " ", "0", " ", "f", "a", "i", "l", "e", "d", ";", " ", "0", " ", "i",
      "g", "n", "o", "r", "e", "d", ";", " ", "f", "i", "n", "i", "s", "h",
      "e", "d", " ", "i", "n", " ", "1", ".", "5", "0", "s", "NL">>

out_failed ==
    <<"t", "e", "s", "t", " ", "r", "e", "s", "u", "l", "t", ":", " ", "F",
      "A", "I", "L", "E", "D", ".", " ", "1", " ", "p", "a", "s", "s", "e",
      "d", ";", " ", "2", " ", "f", "a", "i", "l", "e", "d", ";", " ", "0",
      " ", "i", "g", "n", "o", "r", "e", "d", ";", " ", "f", "i", "n", "i",
      "s", "h", "e", "d", " ", "i", "n", " ", "0", ".", "2", "5", "s", "NL">>

out_partial ==
    <<"t", "e", "s", "t", " ", "r", "e", "s", "u", "l", "t", ":", " ", "o",
      "k", ".", " ", "1", "2", " ", "p", "a", "s", "s", "e", "d", ";", " ",
      "0", " ", "f", "a", "i", "l", "e", "d", ";", " ", "1", " ", "i", "g",
      "n", "o", "r", "e", "d", ";", " ", "f", "i", "n", "i", "s", "h", "e",
      "d", " ", "i", "n", " ", "2", "s", "NL", "r", "u", "n", "n", "i", "n",
      "g", " ", "5", " ", "t", "e", "s", "t", "s", "NL">>

out_no_summary ==
    <<"e", "r", "r", "o", "r", ":", " ", "c", "o", "u", "l", "d", " ", "n",
      "o", "t", " ", "c", "o", "m", "p", "i", "l", "e", "NL">>

out_bad_duration ==
    <<"t", "e", "s", "t", " ", "r", "e", "s", "u", "l", "t", ":", " ", "o",
      "k", ".", " ", "1", " ", "p", "a", "s", "s", "e", "d", ";", " ", "0",
      " ", "f", "a", "i", "l", "e", "d", ";", " ", "0", " ", "i", "g", "n",
      "o", "r", "e", "d", ";", " ", "f", "i", "n", "i", "s", "h", "e", "d",
      " ", "i", "n", " ", "1", ".", "2", ".", "3", "s", "NL">>

out_only_bad_duration ==
    <<"f", "i", "n", "i", "s", "h", "e", "d", " ", "i", "n", " ", "1", ".",
      "2", ".", "3", "s", "NL">>

out_wrapper_no_cargo ==
    <<"t", "i", "m", "e", "o", "u", "t", ":", " ", "f", "a", "i", "l", "e",
      "d", " ", "t", "o", " ", "r", "u", "n", " ", "c", "o", "m", "m", "a",
      "n", "d", " ", "c", "a", "r", "g", "o", ":", " ", "N", "o", " ", "s",
      "u", "c", "h", " ", "f", "i", "l", "e", " ", "o", "r", " ", "d", "i",
      "r", "e", "c", "t", "o", "r", "y", "NL">>

\* what subprocess.run(final_cmd, timeout=...) does, given what the host
\* and the runner process do (h.behaviour): starting the process fails with
\* an OSError other than FileNotFoundError ("os_error"), cargo is not on the
\* PATH ("no_cargo"), cargo runs longer than the timeout ("hangs") or cargo
\* exits in time ("exits").  Without a wrapper a missing cargo raises
\* FileNotFoundError and a long run raises TimeoutExpired; the timeout /
\* gtimeout wrapper itself always starts, and exits 127 when it cannot
\* find cargo and 124 when it had to stop it
SubprocessRun(timeout_bin, h) ==
    IF h.behaviour = "os_error"
    THEN [kind |-> "Exception", returncode |-> 0, output |-> <<>>]
    ELSE IF ~ Truthy(timeout_bin)
    THEN CASE h.behaviour = "no_cargo" ->
                  [kind |-> "FileNotFoundError", returncode |-> 0, output |-> <<>>]
           [] h.behaviour = "hangs" ->
                  [kind |-> "TimeoutExpired", returncode |-> 0, output |-> h.output]
           [] OTHER ->
                  [kind |-> "completed", returncode |-> h.returncode,
                   output |-> h.output]
    ELSE CASE h.behaviour = "no_cargo" ->
                  [kind |-> "completed", returncode |-> 127,
                   output |-> out_wrapper_no_cargo]
           [] h.behaviour = "hangs" ->
                  [kind |-> "completed", returncode |-> 124, output |-> h.output]
           [] OTHER ->
                  [kind |-> "completed", returncode |-> h.returncode,
                   output |-> h.output]

\* a TestResult returned
Returned(r) == [raised |-> FALSE, result |-> r]

\* an exception leaving the function; the result field is unused
Raised == [raised |-> TRUE, result |-> TestResult(0, 0, 0, 0, 0, <<>>, 0)]

\* the handlers of run_cargo_test without `except FileNotFoundError`: the
\* error falls through to `except Exception`
ExceptHandlers_no_file_not_found(kind, output, timeout) ==
    IF kind = "TimeoutExpired"
    THEN Returned(TestResult(0, 0, 0, 0, FloatOfInt(timeout),
                     output \o s_timed_out_after \o IntStr(timeout) \o s_seconds, 124))
    ELSE Returned(TestResult(0, 0, 0, 0, 0, s_error_executing, 1))

\* the handlers of run_cargo_test without the final `except Exception`
ExceptHandlers_no_catch_all(kind, output, timeout) ==
    IF kind = "TimeoutExpired"
    THEN Returned(TestResult(0, 0, 0, 0, FloatOfInt(timeout),
                     output \o s_timed_out_after \o IntStr(timeout) \o s_seconds, 124))
    ELSE IF kind = "FileNotFoundError"
    THEN Returned(TestResult(0, 0, 0, 0, 0, s_cargo_not_found, 127))
    ELSE Raised

\* the except clauses of run_cargo_test: TimeoutExpired, FileNotFoundError,
\* then any other Exception
ExceptHandlers(kind, output, timeout) ==
    IF kind = "TimeoutExpired"
    THEN Returned(TestResult(0, 0, 0, 0, FloatOfInt(timeout),
                     output \o s_timed_out_after \o IntStr(timeout) \o s_seconds, 124))
    ELSE IF kind = "FileNotFoundError"
    THEN Returned(TestResult(0, 0, 0, 0, 0, s_cargo_not_found, 127))
    ELSE Returned(TestResult(0, 0, 0, 0, 0, s_error_executing, 1))

\* (the text of the exception that follows "Error executing cargo test: "
\* in the output is left out)

\* the try body of run_cargo_test after subprocess.run returned: float() of
\* a malformed duration raises ValueError inside the try
TryBody(proc, timeout) ==
    LET combined_output == proc.output
        counts == parse_cargo_test_output(combined_output)
        duration_match == DurationMatch(combined_output)
    IN  IF duration_match # <<>> /\ FloatRaises(duration_match)
        THEN ExceptHandlers("Exception", <<>>, timeout)
        ELSE Returned(TestResult(counts[1], counts[2], counts[3],
                          counts[1] + counts[2] + counts[3],
                          IF duration_match = <<>> THEN 0 ELSE FloatOf(duration_match),
                          combined_output, proc.returncode))

\* final_cmd of run_cargo_test(repo_root, category, module, timeout) on a
\* host where shutil.which finds the commands path_has
RunCmd(category, module, timeout, path_has) ==
    FinalCmd(BuildCmd(category, module), find_timeout_command(path_has), timeout)

\* run_cargo_test(repo_root, category, module, timeout) on the host h
run_cargo_test(category, module, timeout, h) ==
    LET timeout_bin == find_timeout_command(h.path_has)
        proc == SubprocessRun(timeout_bin, h)
    IN  IF proc.kind = "completed"
        THEN TryBody(proc, timeout)
        ELSE ExceptHandlers(proc.kind, proc.output, timeout)

\* run_rust_tests(repo_root, category, module, timeout)
run_rust_tests(category, module, timeout, h) ==
    run_cargo_test(category, module, timeout, h)

\* `if not violations.is_valid()` and `if not args.override` of cmd_run,
\* with the test of the override flag inverted
GateBlocks_override_inverted(v, override) == ~ rs_is_valid(v) /\ override

\* whether the gate of cmd_run returns 1: `if not violations.is_valid()`
\* and `if not args.override`
GateBlocks(v, override) == ~ rs_is_valid(v) /\ ~ override

\* `timeout = args.timeout or ctx.config.rust.timeout`; an absent
\* --timeout (None) is kept as 0, which is as falsy
EffectiveTimeout(a, cfg) ==
    IF a.timeout # 0 THEN a.timeout ELSE cfg.rust_timeout

\* the value returned after the run, with 1 for failed tests
ReportCode_one_on_failure(r) == IF success(r) THEN 0 ELSE 1

\* the value cmd_run returns after the run
ReportCode(r) == IF success(r) THEN 0 ELSE 2

\* validate_config(config, repo_root): the list of errors, each kept as a
\* tag.  Config.languages is ["rust"] in every configuration modelled (the
\* default of Config and of detect_languages), so the language names are
\* valid and only the Rust manifest is looked for
validate_config(cfg, f) ==
    (IF ~ Exists(f, <<s_Cargo_toml>>) THEN <<"Cargo.toml not found">> ELSE <<>>)
        \o (IF ~ Exists(f, cfg.test_root)
            THEN <<"Test directory not found">> ELSE <<>>)
        \o (IF ~ Exists(f, cfg.features_root)
            THEN <<"Features directory not found">> ELSE <<>>)

\* the cmd_run variables when no invocation is modelled
RunIdle ==
    /\ args = [skip_enforcement |-> FALSE, override |-> FALSE, category |-> None,
               module |-> None, timeout |-> 0]
    /\ repo_found = FALSE
    /\ ctx_errors = <<>>
    /\ r_pc = "idle"
    /\ host = [path_has |-> {}, behaviour |-> "exits", returncode |-> 0,
               output |-> <<>>]
    /\ final_cmd = <<>>
    /\ timeout_used = 0
    /\ result = TestResult(0, 0, 0, 0, 0, <<>>, 0)
    /\ returned = 0
    /\ runner_calls = 0
    /\ validated = FALSE

----------------------------------------------------------------------------
(* Specification of discovery and validation: Init draws a repository      *)
(* tree, a configuration, the dependency cache and the enumeration orders; *)
(* the actions are the calls.                                              *)

\* most entries drawn into the repository tree
MaxEntries == 3

s_math == <<"m", "a", "t", "h">>
s_math_rs == <<"m", "a", "t", "h", ".", "r", "s">>
s_sanity_a == <<"s", "a", "n", "i", "t", "y", "_", "a">>
s_sanity_a_rs == <<"s", "a", "n", "i", "t", "y", "_", "a", ".", "r", "s">>
s_sanity_math_rs == <<"s", "a", "n", "i", "t", "y", "_", "m", "a", "t", "h", ".", "r", "s">>
s_uat_math_rs == <<"u", "a", "t", "_", "m", "a", "t", "h", ".", "r", "s">>
s_sanity_rs == <<"s", "a", "n", "i", "t", "y", ".", "r", "s">>
s_foo_rs == <<"f", "o", "o", ".", "r", "s">>
s_bad_sh == <<"b", "a", "d", ".", "s", "h">>
s_hub_serde_rs == <<"h", "u", "b", "_", "s", "e", "r", "d", "e", ".", "r", "s">>
s_bogus == <<"b", "o", "g", "u", "s">>
s_serde == <<"s", "e", "r", "d", "e">>
s_dev_x == <<"d", "e", "v", "_", "x">>
s_dev_x_rs == <<"d", "e", "v", "_", "x", ".", "r", "s">>
s_uat_sanity_a_rs ==
    <<"u", "a", "t", "_", "s", "a", "n", "i", "t", "y", "_", "a", ".", "r", "s">>
s_sanity_us_rs == <<"s", "a", "n", "i", "t", "y", "_", ".", "r", "s">>
s_sanity_sh == <<"s", "a", "n", "i", "t", "y", ".", "s", "h">>

File(p) == [path |-> p, kind |-> "file"]

Dir(p) == [path |-> p, kind |-> "dir"]

\* candidate entries of the repository tree
Pool ==
    { File(<<s_src, s_math, s_mod_rs>>), File(<<s_src, s_math_rs>>),
      File(<<s_src, s_sanity_a_rs>>), File(<<s_src, s_deps_rs>>),
      File(<<s_src, s_dev_x_rs>>), File(<<s_tests, s_sanity, s_dev_x_rs>>),
      File(<<s_tests, s_sanity_math_rs>>), File(<<s_tests, s_uat_math_rs>>),
      File(<<s_tests, s_sanity_rs>>), File(<<s_tests, s_foo_rs>>),
      File(<<s_tests, s_bad_sh>>),
      File(<<s_tests, s_sanity, s_math_rs>>),
      File(<<s_tests, s_sanity, s_sanity_math_rs>>),
      File(<<s_tests, s_sanity, s_sanity_a_rs>>),
      File(<<s_tests, s_integration, s_hub_serde_rs>>),
      File(<<s_tests>>), Dir(<<s_tests, s_bogus>>),
      File(<<s_tests, s_uat_sanity_a_rs>>), File(<<s_tests, s_sanity_us_rs>>),
      File(<<s_tests, s_dev_x_rs>>), File(<<s_tests, s_sanity_sh>>),
      File(<<s_tests, s_sanity, s_uat_math_rs>>),
      Dir(<<s_tests, s_archive, s_bogus>>) }

\* the subsets of S with at most n elements
RECURSIVE SubsetsUpTo(_, _)
SubsetsUpTo(S, n) ==
    IF n = 0 THEN {{}}
    ELSE LET smaller == SubsetsUpTo(S, n - 1)
         IN  smaller \cup { T \cup {x} : T \in smaller, x \in S }

\* the proper ancestors of a path, the root excluded
Ancestors(p) == { SubSeq(p, 1, k) : k \in 1..(Len(p) - 1) }

\* the tree holding the entries E and the directories leading to them
Tree(E) ==
    [ files |-> { e.path : e \in { x \in E : x.kind = "file" } },
      dirs |-> { e.path : e \in { x \in E : x.kind = "dir" } }
                  \cup UNION { Ancestors(e.path) : e \in E } ]

\* a repository that passes validation: one module with its sanity and uat
\* tests, and an entry file for every category
CleanEntries ==
    { File(<<s_Cargo_toml>>), File(<<s_src, s_math, s_mod_rs>>),
      File(<<s_tests, s_sanity_math_rs>>), File(<<s_tests, s_uat_math_rs>>) }
        \cup { File(<<s_tests, c \o s_dot_rs>>) : c \in valid_categories }

\* the trees drawn: no path is both a regular file and a directory; and the
\* repository that passes validation
Trees ==
    { t \in { Tree(E) : E \in SubsetsUpTo(Pool, MaxEntries) } :
          t.files \cap t.dirs = {} }
        \cup { Tree(CleanEntries) }

\* the configurations drawn: the defaults, and a .spec.toml that sets
\* rust.exclusions (which replaces the default exclusions)
DefaultConfig == Config(<<s_tests>>, <<s_src>>, <<>>, <<>>, DefaultTimeout)

CustomConfig ==
    Config(<<s_tests>>, <<s_src>>, << <<"s", "a", "n", "i", "t", "y", "_", "*">> >>,
           <<>>, DefaultTimeout)

Configs == { DefaultConfig, CustomConfig }

\* the dependency cache: absent, or a hub record followed by one dependency
NoCache ==
    [ exists |-> FALSE, searchable |-> TRUE, readable |-> FALSE,
      error |-> "OSError", lines |-> <<>> ]

HubCache ==
    [ exists |-> TRUE, searchable |-> TRUE, readable |-> TRUE, error |-> "none",
      lines |-> << <<"1", "TAB">> \o s_hub \o <<"TAB">> \o s_Cargo_toml,
                   <<"1", "0", "TAB", "1", "TAB">> \o s_serde >> ]

Caches == { NoCache, HubCache }

\* iteration orders of the valid_categories set
CategoryList ==
    << s_sanity, s_smoke, s_unit, s_integration, s_e2e, s_uat, s_chaos,
       s_bench, s_regression >>

CatOrders == { CategoryList, Reverse(CategoryList) }

\* Violations() of testrs: six empty lists
RsViolations ==
    [ naming |-> <<>>, missing_sanity |-> <<>>, missing_uat |-> <<>>,
      missing_category_entries |-> <<>>, unauthorized_root |-> <<>>,
      invalid_directories |-> <<>> ]

\* the validation variables when no pass is modelled
ValIdle ==
    /\ fs = Tree({})
    /\ config = DefaultConfig
    /\ cache = NoCache
    /\ listing = "asc"
    /\ cat_iter = CategoryList
    /\ v_pc = "idle"
    /\ modules = <<>>
    /\ tests = <<>>
    /\ violations = Violations
    /\ rs_violations = RsViolations
    /\ first_violations = Violations

InitVal ==
    /\ fs \in Trees
    /\ config \in Configs
    /\ cache \in Caches
    /\ listing \in {"asc", "desc"}
    /\ cat_iter \in CatOrders
    /\ v_pc = "start"
    /\ modules = <<>>
    /\ tests = <<>>
    /\ violations = Violations
    /\ rs_violations = RsViolations
    /\ first_violations = Violations
    /\ ExclIdle
    /\ RunIdle
    /\ HubIdle

\* a call of discover_rust_modules(repo_root, config)
DiscoverModules ==
    /\ v_pc = "start"
    /\ modules' = discover_rust_modules(fs, config, listing)
    /\ v_pc' = "modules"
    /\ UNCHANGED <<fs, config, cache, listing, cat_iter, tests, violations,
                   rs_violations, first_violations, exclVars, runVars, hubVars>>

\* a call of discover_rust_tests(repo_root, config)
DiscoverTests ==
    /\ v_pc = "modules"
    /\ tests' = discover_rust_tests(fs, config, listing, cat_iter)
    /\ v_pc' = "tests"
    /\ UNCHANGED <<fs, config, cache, listing, cat_iter, modules, violations,
                   rs_violations, first_violations, exclVars, runVars, hubVars>>

\* a call of testpy's validate_rust_tests(repo_root, config): it runs its
\* own discovery pass and returns the Violations, or raises
Validate ==
    /\ v_pc = "tests"
    /\ modules' = discover_rust_modules(fs, config, listing)
    /\ tests' = discover_rust_tests(fs, config, listing, cat_iter)
    /\ IF validate_raises(fs, config)
       THEN /\ v_pc' = "raised"
            /\ UNCHANGED violations
       ELSE /\ v_pc' = "validated"
            /\ violations' = validate_rust_tests(fs, config, cache, listing, cat_iter)
    /\ UNCHANGED <<fs, config, cache, listing, cat_iter, rs_violations,
                   first_violations, exclVars, runVars, hubVars>>

\* a call of testrs's validate_rust_tests(repo_root, config)
ValidateRs ==
    /\ v_pc = "validated"
    /\ ~ rs_validate_raises(fs, config)
    /\ rs_violations' = rs_validate_rust_tests(fs, config, listing, cat_iter)
    /\ v_pc' = "done"
    /\ UNCHANGED <<fs, config, cache, listing, cat_iter, modules, tests,
                   violations, first_violations, exclVars, runVars, hubVars>>

\* a second call of testpy's validate_rust_tests(repo_root, config) over the
\* unchanged repository, in the same interpreter or in a new one: a new
\* interpreter iterates the valid_categories set in an order of its own
\* (str hashes are salted per process)
ValidateAgain ==
    /\ v_pc = "done"
    /\ \E order \in CatOrders :
          /\ cat_iter' = order
          /\ modules' = discover_rust_modules(fs, config, listing)
          /\ tests' = discover_rust_tests(fs, config, listing, order)
          /\ violations' = validate_rust_tests(fs, config, cache, listing, order)
    /\ first_violations' = violations
    /\ v_pc' = "again"
    /\ UNCHANGED <<fs, config, cache, listing, rs_violations, exclVars, runVars, hubVars>>

NextVal ==
    DiscoverModules \/ DiscoverTests \/ Validate \/ ValidateRs \/ ValidateAgain

SpecVal == InitVal /\ [][NextVal]_vars

----------------------------------------------------------------------------
(* Specification of _is_excluded as a pure function: Init draws the name   *)
(* and the pattern list, IsExcludedCall applies the function.              *)

\* longest exclusion list drawn
MaxPatterns == 2

\* candidate names: module names are directory names / file stems
ExNames ==
    { s_dev, s_dev_, <<"d", "e", "v", "_", "u", "t", "i", "l", "s">>,
      <<"d", "e">>, <<"d", "e", "v", "x">>, <<"m", "a", "t", "h">>,
      <<"m", "a", "t", "h", "_", "r", "s">>, <<"_", "x">>, <<"x", "_">>,
      <<"l", "i", "b", ".", "r", "s">>, <<>> }

\* candidate patterns: the three shapes, wildcards alone and at both ends
ExPatterns ==
    { s_dev_star, <<"_", "*">>, <<"d", "e", "v", "*">>, <<"*", "_", "r", "s">>,
      <<"*", "x">>, s_dev, <<"m", "a", "t", "h">>, <<"l", "i", "b", ".", "r", "s">>,
      s_star, <<"*", "_", "*">>, <<>> }

ExPatternLists ==
    UNION { [1..n -> ExPatterns] : n \in 0..MaxPatterns }

InitExcl ==
    /\ ex_name \in ExNames
    /\ ex_exclusions \in ExPatternLists
    /\ ex_result = FALSE
    /\ ex_pc = "call"
    /\ ValIdle
    /\ RunIdle
    /\ HubIdle

IsExcludedCall ==
    /\ ex_pc = "call"
    /\ ex_result' = _is_excluded(ex_name, ex_exclusions)
    /\ ex_pc' = "done"
    /\ UNCHANGED <<ex_name, ex_exclusions, valVars, runVars, hubVars>>

NextExcl == IsExcludedCall

SpecExcl == InitExcl /\ [][NextExcl]_vars

----------------------------------------------------------------------------
(* Specification of the run command (cmd_run of testrs/cli.py): Init draws *)
(* the command line, the repository and its configuration; RunTests draws  *)
(* what the host and the runner process do.                                *)

\* the repositories drawn: the clean one, the clean one without its
\* Cargo.toml (a repository root found by its .git directory), one without
\* the uat test, one without tests and sources, and one whose test root is a
\* regular file
RunTrees ==
    { Tree(CleanEntries),
      Tree(CleanEntries \ {File(<<s_Cargo_toml>>)}),
      Tree(CleanEntries \ {File(<<s_tests, s_uat_math_rs>>)}),
      Tree({File(<<s_Cargo_toml>>)}),
      Tree({File(<<s_Cargo_toml>>), File(<<s_tests>>)}) }

\* a .spec.toml that sets rust.timeout
ShortTimeoutConfig == Config(<<s_tests>>, <<s_src>>, <<>>, <<>>, 30)

\* the command lines drawn; timeout 0 stands for no --timeout
RunArgs ==
    [ skip_enforcement : BOOLEAN, override : BOOLEAN,
      category : {None, s_sanity, s_uat},
      module : {None, <<>>, s_math},
      timeout : {0, 5} ]

\* what the host and the runner process can do during the run
Hosts ==
    { [path_has |-> P, behaviour |-> b.behaviour, returncode |-> b.returncode,
       output |-> b.output] :
        P \in SUBSET {s_timeout, s_gtimeout},
        b \in [behaviour : {"exits"}, returncode : {0},
               output : {out_ok, out_bad_duration, out_only_bad_duration}]
          \cup [behaviour : {"exits"}, returncode : {101},
                output : {out_failed, out_no_summary}]
          \cup [behaviour : {"hangs"}, returncode : {0},
                output : {<<>>, out_partial, out_no_summary, out_bad_duration}]
          \cup [behaviour : {"no_cargo", "os_error"}, returncode : {0},
                output : {<<>>}] }

InitRun ==
    /\ args \in RunArgs
    /\ repo_found \in BOOLEAN
    /\ ctx_errors = <<>>
    /\ fs \in RunTrees
    /\ config \in {DefaultConfig, ShortTimeoutConfig}
    /\ cache = NoCache
    /\ listing = "asc"
    /\ cat_iter = CategoryList
    /\ v_pc = "idle"
    /\ modules = <<>>
    /\ tests = <<>>
    /\ violations = Violations
    /\ rs_violations = RsViolations
    /\ first_violations = Violations
    /\ r_pc = "start"
    /\ host = [path_has |-> {}, behaviour |-> "exits", returncode |-> 0,
               output |-> <<>>]
    /\ final_cmd = <<>>
    /\ timeout_used = 0
    /\ result = TestResult(0, 0, 0, 0, 0, <<>>, 0)
    /\ returned = 0
    /\ runner_calls = 0
    /\ validated = FALSE
    /\ ExclIdle
    /\ HubIdle

\* ctx = create_repo_context(): RuntimeError when no repository root is
\* found, which cmd_run turns into exit code 127; otherwise the errors of
\* validate_config are stored in the context and nothing reads them
CreateRepoContext ==
    /\ r_pc = "start"
    /\ IF repo_found
       THEN /\ r_pc' = "ctx"
            /\ ctx_errors' = validate_config(config, fs)
            /\ UNCHANGED returned
       ELSE /\ r_pc' = "done"
            /\ returned' = 127
            /\ UNCHANGED ctx_errors
    /\ UNCHANGED <<args, repo_found, host, final_cmd, timeout_used, result,
                   runner_calls, validated, valVars, exclVars, hubVars>>

\* `if not args.skip_enforcement:` taken: validate_rust_tests, then the
\* gate.  An exception of validate_rust_tests is no RuntimeError and leaves
\* cmd_run
Gate ==
    /\ r_pc = "ctx"
    /\ ~ args.skip_enforcement
    /\ IF rs_validate_raises(fs, config)
       THEN /\ r_pc' = "crashed"
            /\ UNCHANGED <<rs_violations, validated, returned>>
       ELSE LET v == rs_validate_rust_tests(fs, config, listing, cat_iter)
            IN  /\ rs_violations' = v
                /\ validated' = TRUE
                /\ IF GateBlocks(v, args.override)
                   THEN r_pc' = "done" /\ returned' = 1
                   ELSE r_pc' = "run" /\ UNCHANGED returned
    /\ UNCHANGED <<args, repo_found, ctx_errors, host, final_cmd, timeout_used,
                   result, runner_calls, fs, config, cache, listing, cat_iter, v_pc,
                   modules, tests, violations, first_violations, exclVars, hubVars>>

\* `if not args.skip_enforcement:` not taken
SkipGate ==
    /\ r_pc = "ctx"
    /\ args.skip_enforcement
    /\ r_pc' = "run"
    /\ UNCHANGED <<args, repo_found, ctx_errors, host, final_cmd, timeout_used,
                   result, returned, runner_calls, validated, valVars, exclVars, hubVars>>

\* result = run_rust_tests(ctx.root, category, module, timeout)
RunTests ==
    /\ r_pc = "run"
    /\ \E h \in Hosts :
          LET timeout == EffectiveTimeout(args, config)
              out == run_rust_tests(args.category, args.module, timeout, h)
          IN  /\ host' = h
              /\ timeout_used' = timeout
              /\ final_cmd' = RunCmd(args.category, args.module, timeout, h.path_has)
              /\ runner_calls' = runner_calls + 1
              /\ IF out.raised
                 THEN r_pc' = "run_raised" /\ UNCHANGED result
                 ELSE r_pc' = "ran" /\ result' = out.result
    /\ UNCHANGED <<args, repo_found, ctx_errors, returned, validated, valVars,
                   exclVars, hubVars>>

\* `if result.success: ... return 0` / `else: ... return 2`
Report ==
    /\ r_pc = "ran"
    /\ returned' = ReportCode(result)
    /\ r_pc' = "done"
    /\ UNCHANGED <<args, repo_found, ctx_errors, host, final_cmd, timeout_used,
                   result, runner_calls, validated, valVars, exclVars, hubVars>>

NextRun == CreateRepoContext \/ Gate \/ SkipGate \/ RunTests \/ Report

SpecRun == InitRun /\ [][NextRun]_vars

----------------------------------------------------------------------------
(* The hub-integration check: get_hub_packages over dependency caches of   *)
(* at most MaxRows rows, then validate_hub_integration_tests, then a whole *)
(* validation pass under a Config with other roots.                        *)

MaxRows == 4

s_regex == <<"r", "e", "g", "e", "x">>
s_tokio == <<"t", "o", "k", "i", "o">>
s_t == <<"t">>

\* the boundary row: id 1, name 'hub', a path holding the manifest name
row_hub == <<"1", "TAB">> \o s_hub \o <<"TAB">> \o s_Cargo_toml

\* dependency rows of the hub record: ids 10 and 11
row_serde == <<"1", "0", "TAB", "1", "TAB">> \o s_serde

row_regex == <<"1", "1", "TAB", "1", "TAB">> \o s_regex

\* a row of another record: id 2
row_other == <<"2", "TAB", "2", "TAB">> \o s_tokio

\* a row of a single field
row_short == <<"1", "2">>

\* a row whose first field is the boundary id itself
row_same_id == <<"1", "TAB", "1", "TAB">> \o s_tokio

CacheRows == { row_hub, row_serde, row_regex, row_other, row_short, row_same_id }

\* the lists of at most n rows
RECURSIVE RowLists(_)
RowLists(n) ==
    IF n = 0 THEN { <<>> }
    ELSE LET shorter == RowLists(n - 1)
         IN  shorter \cup { Append(l, r) : l \in shorter, r \in CacheRows }

\* a cache file in a directory without search permission
UnsearchableCache ==
    [ exists |-> FALSE, searchable |-> FALSE, readable |-> FALSE,
      error |-> "OSError", lines |-> <<row_hub, row_serde>> ]

\* the dependency cache: absent, in a directory that cannot be searched,
\* present and failing to open or to decode, or readable with any rows
HubCaches ==
    { NoCache, UnsearchableCache }
    \cup { [exists |-> TRUE, searchable |-> TRUE, readable |-> FALSE, error |-> e,
            lines |-> <<row_hub, row_serde>>] : e \in {"OSError", "UnicodeDecodeError"} }
    \cup { [exists |-> TRUE, searchable |-> TRUE, readable |-> TRUE,
            error |-> "none", lines |-> l] : l \in RowLists(MaxRows) }

\* repositories with and without the marker and the integration test, at
\* the fixed locations and under other roots
HubTrees ==
    { Tree({}),
      Tree({File(<<s_src, s_deps_rs>>)}),
      Tree({File(<<s_src, s_deps_rs>>),
            File(<<s_tests, s_integration, s_hub_serde_rs>>)}),
      Tree({File(<<s_tests, s_integration, s_hub_serde_rs>>)}),
      Tree({File(<<s_lib, s_deps_rs>>),
            File(<<s_t, s_integration, s_hub_serde_rs>>)}),
      Tree({File(<<s_src, s_deps_rs>>),
            File(<<s_t, s_integration, s_hub_serde_rs>>)}) }

\* a Config with test_root 't' and features_root 'lib'
OtherRootsConfig == Config(<<s_t>>, <<s_lib>>, <<>>, <<>>, DefaultTimeout)

HubConfigs == { DefaultConfig, OtherRootsConfig }

InitHub ==
    /\ fs \in HubTrees
    /\ config = DefaultConfig
    /\ cache \in HubCaches
    /\ listing = "asc"
    /\ cat_iter = CategoryList
    /\ v_pc = "idle"
    /\ modules = <<>>
    /\ tests = <<>>
    /\ violations = Violations
    /\ rs_violations = RsViolations
    /\ first_violations = Violations
    /\ h_pc = "start"
    /\ h_packages = <<>>
    /\ h_missing = <<>>
    /\ h_again = <<>>
    /\ ExclIdle
    /\ RunIdle

\* a call of get_hub_packages()
GetHubPackages ==
    /\ h_pc = "start"
    /\ \E exists_outcome \in ExistsOutcomes(cache) :
           IF get_hub_packages_raises(cache, exists_outcome)
           THEN /\ h_pc' = "raised"
                /\ UNCHANGED h_packages
           ELSE /\ h_pc' = "packages"
                /\ h_packages' = get_hub_packages(cache)
    /\ UNCHANGED <<h_missing, h_again, valVars, exclVars, runVars>>

\* a call of validate_hub_integration_tests(repo_root)
ValidateHub ==
    /\ h_pc = "packages"
    /\ h_missing' = validate_hub_integration_tests(fs, cache)
    /\ h_pc' = "hub"
    /\ UNCHANGED <<h_packages, h_again, valVars, exclVars, runVars>>

\* a call of validate_rust_tests(repo_root, config) over the same
\* repository and cache under a Config of HubConfigs
ValidateUnderConfig ==
    /\ h_pc = "hub"
    /\ \E cfg \in HubConfigs :
           /\ ~ validate_raises(fs, cfg)
           /\ config' = cfg
           /\ violations' = validate_rust_tests(fs, cfg, cache, listing, cat_iter)
    /\ h_again' = violations'.missing_hub_integration
    /\ h_pc' = "again"
    /\ UNCHANGED <<fs, cache, listing, cat_iter, v_pc, modules, tests,
                   rs_violations, first_violations, h_packages, h_missing,
                   exclVars, runVars>>

NextHub == GetHubPackages \/ ValidateHub \/ ValidateUnderConfig

SpecHub == InitHub /\ [][NextHub]_vars

----------------------------------------------------------------------------
(* C10                                                                     *)

\* pattern is 'prefix*' and name begins with prefix
MatchesAsPrefix(pattern, name) ==
    \E k \in 0..Len(name) : pattern = SubSeq(name, 1, k) \o s_star

\* pattern is '*suffix' and name ends with suffix
MatchesAsSuffix(pattern, name) ==
    \E k \in 0..Len(name) : pattern = s_star \o SubSeq(name, k + 1, Len(name))

\* C10: with the single pattern 'dev_*' every name beginning with 'dev_' is
\* excluded and the bare name 'dev' is not; in general the call returns true
\* exactly when some pattern of the list matches the name as 'prefix*', as
\* '*suffix' or as the exact string.
C10_IsExcludedShapes ==
    ex_pc = "done" =>
        /\ (ex_exclusions = <<s_dev_star>> /\ StartsWith(ex_name, s_dev_))
              => ex_result = TRUE
        /\ (ex_exclusions = <<s_dev_star>> /\ ex_name = s_dev)
              => ex_result = FALSE
        /\ ex_result =
              (\E i \in 1..Len(ex_exclusions) :
                  \/ MatchesAsPrefix(ex_exclusions[i], ex_name)
                  \/ MatchesAsSuffix(ex_exclusions[i], ex_name)
                  \/ ex_exclusions[i] = ex_name)

\* the call with 'dev_*' first in the list has returned for the bare name
\* 'dev', and the remaining pattern excludes by suffix
C10_Witness ==
    /\ ex_pc = "done"
    /\ ex_result = TRUE
    /\ ex_name = <<"m", "a", "t", "h", "_", "r", "s">>
    /\ ex_exclusions = <<s_dev_star, <<"*", "_", "r", "s">>>>

----------------------------------------------------------------------------
(* C7                                                                      *)

\* C7: for every Violations value a validation pass returns, total() is the
\* number of entries of all its lists together (seven in testpy; the
\* Violations of testrs has the first six and no hub list), and is_valid()
\* is true exactly when total() is 0, that is when every list is empty.
C7_TotalIsSumOfLists ==
    /\ v_pc \in {"validated", "done"} =>
          LET v == violations
              all == v.naming \o v.missing_sanity \o v.missing_uat
                        \o v.missing_category_entries \o v.unauthorized_root
                        \o v.invalid_directories \o v.missing_hub_integration
          IN  /\ total(v) = Len(all)
              /\ is_valid(v) <=> (total(v) = 0)
              /\ is_valid(v) <=> (all = <<>>)
    /\ v_pc = "done" =>
          LET v == rs_violations
              all == v.naming \o v.missing_sanity \o v.missing_uat
                        \o v.missing_category_entries \o v.unauthorized_root
                        \o v.invalid_directories
          IN  /\ rs_total(v) = Len(all)
              /\ rs_is_valid(v) <=> (rs_total(v) = 0)
              /\ rs_is_valid(v) <=> (all = <<>>)

\* both validators have returned, and the hub list and the naming list of
\* the testpy result are not empty
C7_Witness ==
    /\ v_pc = "done"
    /\ violations.missing_hub_integration # <<>>
    /\ violations.naming # <<>>
    /\ rs_violations.naming # <<>>

----------------------------------------------------------------------------
(* C8                                                                      *)

\* number of occurrences of x in the list
Count(list, x) == Cardinality({ i \in 1..Len(list) : list[i] = x })

\* the list of the violations that check 2 (sanity) or check 3 (uat) fills
MissingList(v, category) ==
    IF category = s_sanity THEN v.missing_sanity ELSE v.missing_uat

\* tests/<category>_<M>.rs
WrapperFile(cfg, category, name) ==
    Append(cfg.test_root, category \o s_us \o name \o s_dot_rs)

\* tests/<category>/<M>.rs
DirectoryFile(cfg, category, name) ==
    cfg.test_root \o <<category, name \o s_dot_rs>>

\* tests/<category>/<category>_<M>.rs
PrefixedFile(cfg, category, name) ==
    cfg.test_root \o <<category, category \o s_us \o name \o s_dot_rs>>

\* C8 as claimed: after validation every discovered module M is listed
\* exactly once in missing_sanity when no discovered test has category
\* 'sanity' and module M, and not at all when one of tests/sanity_<M>.rs,
\* tests/sanity/<M>.rs, tests/sanity/sanity_<M>.rs exists; the same for
\* missing_uat and 'uat'.
C8_AnyLayoutFileSatisfies ==
    v_pc \in {"validated", "done"} =>
        \A i \in 1..Len(modules) : \A category \in {s_sanity, s_uat} :
            LET name == modules[i].name
                list == MissingList(violations, category)
            IN  /\ ~ HasTest(tests, category, name) => Count(list, name) = 1
                /\ ( \/ Exists(fs, WrapperFile(config, category, name))
                     \/ Exists(fs, DirectoryFile(config, category, name))
                     \/ Exists(fs, PrefixedFile(config, category, name)) )
                       => Count(list, name) = 0

\* C8 (amended): after validation every discovered module M is listed
\* exactly once in missing_sanity when no discovered test has category
\* 'sanity' and module M, and not at all otherwise; the entries are bare
\* names of discovered modules.  tests/sanity_<M>.rs and
\* tests/sanity/sanity_<M>.rs always count as such a test;
\* tests/sanity/<M>.rs counts unless M begins with '_', 'dev_' or
\* 'sanity_'.  The same for missing_uat and 'uat'.
C8_MissingPerModule ==
    v_pc \in {"validated", "done"} =>
        \A category \in {s_sanity, s_uat} :
            LET list == MissingList(violations, category)
            IN  /\ \A j \in 1..Len(list) :
                       \E i \in 1..Len(modules) : list[j] = modules[i].name
                /\ \A i \in 1..Len(modules) :
                       LET name == modules[i].name
                       IN  /\ Count(list, name) =
                                 IF HasTest(tests, category, name) THEN 0 ELSE 1
                           /\ ( \/ Exists(fs, WrapperFile(config, category, name))
                                \/ Exists(fs, PrefixedFile(config, category, name))
                                \/ /\ Exists(fs, DirectoryFile(config, category, name))
                                   /\ ~ SkippedStem(name)
                                   /\ ~ StartsWith(name, category \o s_us) )
                                  => Count(list, name) = 0

\* module sanity_a is discovered, tests/sanity/sanity_a.rs exists, and the
\* pass lists sanity_a once in missing_sanity
C8_Witness ==
    /\ v_pc = "validated"
    /\ \E i \in 1..Len(modules) : modules[i].name = s_sanity_a
    /\ Exists(fs, DirectoryFile(config, s_sanity, s_sanity_a))
    /\ Count(violations.missing_sanity, s_sanity_a) = 1

----------------------------------------------------------------------------
(* C9                                                                      *)

\* C9: when the test root does not exist, discover_rust_tests returns the
\* empty list and validate_rust_tests returns, without raising, a result
\* whose naming and unauthorized_root lists are empty; when the module root
\* does not exist, discover_rust_modules returns the empty list.
C9_MissingRootsTolerated ==
    /\ (v_pc \in {"tests", "validated", "done"} /\ ~ Exists(fs, config.test_root))
          => tests = <<>>
    /\ ~ Exists(fs, config.test_root) => v_pc # "raised"
    /\ (v_pc \in {"validated", "done"} /\ ~ Exists(fs, config.test_root))
          => /\ violations.naming = <<>>
             /\ violations.unauthorized_root = <<>>
    /\ (v_pc \in {"modules", "tests", "validated", "done"}
            /\ ~ Exists(fs, config.features_root))
          => modules = <<>>

\* validation has returned for a repository that has modules and no test
\* root
C9_Witness ==
    /\ v_pc = "validated"
    /\ ~ Exists(fs, config.test_root)
    /\ modules # <<>>
    /\ violations.missing_sanity # <<>>

----------------------------------------------------------------------------
(* Claims about the run command and the runner (SpecRun).                  *)

\* run_rust_tests has returned a TestResult in this invocation
RunnerReturned == runner_calls > 0 /\ r_pc \in {"ran", "done"}

\* all four counts of the result are zero
ZeroCounts(r) == r.passed = 0 /\ r.failed = 0 /\ r.ignored = 0 /\ r.total = 0

\* C1 as stated: whenever enforcement is not skipped, validation reports a
\* violation and the override flag is not set, cmd_run returns 1 and
\* run_rust_tests is never invoked; and the runner is only ever invoked after
\* validation has completed.  The last part fails with --skip-enforcement.
C1_RunnerOnlyAfterValidation ==
    /\ (validated /\ ~ rs_is_valid(rs_violations) /\ ~ args.override)
           => (r_pc = "done" /\ returned = 1 /\ runner_calls = 0)
    /\ runner_calls > 0 => validated

\* C1: whenever enforcement is not skipped, validation reports a violation
\* and the override flag is not set, cmd_run returns 1 and run_rust_tests is
\* never invoked; whenever enforcement is not skipped, run_rust_tests is
\* invoked only after validation has completed; with --skip-enforcement it is
\* invoked with no validation at all.
C1_GateBeforeRunner ==
    /\ (~ args.skip_enforcement /\ validated /\ ~ rs_is_valid(rs_violations)
            /\ ~ args.override)
           => (r_pc = "done" /\ returned = 1 /\ runner_calls = 0)
    /\ (~ args.skip_enforcement /\ runner_calls > 0) => validated
    /\ args.skip_enforcement => ~ validated

\* C1 witness: the gate has stopped an invocation with violations
C1_Witness ==
    /\ r_pc = "done" /\ ~ args.skip_enforcement /\ ~ args.override
    /\ validated /\ rs_violations.missing_uat = <<s_math>>
    /\ returned = 1 /\ runner_calls = 0

\* C2 as stated: cmd_run returns 0 when the tests succeeded, 2 when they ran
\* and failed, 124 when the execution timed out and 127 when the runner is
\* missing.
C2_ExitCodesSurfaced ==
    (r_pc = "done" /\ runner_calls > 0) =>
        returned = (CASE result.exit_code = 0 -> 0
                      [] result.exit_code = 124 -> 124
                      [] result.exit_code = 127 -> 127
                      [] OTHER -> 2)

\* C3 as stated: every run_cargo_test that ends because the timeout expired,
\* under the wrapper or under the subprocess timeout, returns exit_code 124,
\* duration == timeout and all counts zero.
C3_TimeoutResult ==
    (RunnerReturned /\ host.behaviour = "hangs") =>
        /\ result.exit_code = 124
        /\ result.duration = FloatOfInt(timeout_used)
        /\ ZeroCounts(result)

\* C4: when cargo cannot be found, run_cargo_test returns exit_code 127 and
\* all counts zero, with and without a timeout wrapper on the host.
C4_RunnerMissing ==
    (runner_calls > 0 /\ host.behaviour = "no_cargo") =>
        /\ r_pc \in {"ran", "done"}
        /\ result.exit_code = 127
        /\ ZeroCounts(result)

\* C4 witness: cargo is missing on a host that has the timeout wrapper
C4_Witness ==
    /\ r_pc = "ran" /\ host.behaviour = "no_cargo"
    /\ host.path_has = {s_timeout}
    /\ Head(final_cmd) = s_timeout
    /\ result.exit_code = 127 /\ result.output = out_wrapper_no_cargo

\* C5: run_cargo_test / run_rust_tests never propagates an exception for an
\* execution error (runner missing, timeout, unexpected process failure):
\* every call ends by returning a TestResult.
C5_NeverRaises ==
    /\ r_pc # "run_raised"
    /\ runner_calls > 0 => r_pc \in {"ran", "done"}

\* C5 witness: an unexpected process failure came back as a TestResult
C5_Witness ==
    /\ r_pc = "ran" /\ host.behaviour = "os_error"
    /\ result.exit_code = 1 /\ result.output = s_error_executing

\* the wrapper part of final_cmd: [timeout_bin, f"{timeout}s"] or nothing
WrapperPrefix ==
    IF s_timeout \in host.path_has
    THEN <<s_timeout, IntStr(timeout_used) \o <<"s">>>>
    ELSE IF s_gtimeout \in host.path_has
    THEN <<s_gtimeout, IntStr(timeout_used) \o <<"s">>>>
    ELSE <<>>

\* given: neither None nor the empty string
Given(x) == x # None /\ x # <<>>

\* C6: the command built is 'cargo test --test <category>_<module>' when
\* category and module are given, 'cargo test <category>' when only the
\* category is, 'cargo test <module>' when only the module is, and plain
\* 'cargo test' when neither is.
C6_FilterComposition ==
    runner_calls > 0 =>
        final_cmd = WrapperPrefix \o
            (CASE Given(args.category) /\ Given(args.module) ->
                      <<s_cargo, s_test, s_dashtest,
                        args.category \o <<"_">> \o args.module>>
               [] Given(args.category) /\ ~ Given(args.module) ->
                      <<s_cargo, s_test, args.category>>
               [] ~ Given(args.category) /\ Given(args.module) ->
                      <<s_cargo, s_test, args.module>>
               [] OTHER -> <<s_cargo, s_test>>)

\* C6 witness: category and module given, the exact test target requested
C6_Witness ==
    /\ runner_calls > 0 /\ args.category = s_sanity /\ args.module = s_math
    /\ host.path_has = {}
    /\ final_cmd = <<s_cargo, s_test, s_dashtest,
                     <<"s", "a", "n", "i", "t", "y", "_", "m", "a", "t", "h">>>>

----------------------------------------------------------------------------
(* Claims about discovery (SpecVal).                                       *)

\* discover_rust_modules has returned
ModulesKnown == v_pc \in {"modules", "tests", "validated", "done", "again"}

\* the names with a primary-tier file src/<name>/mod.rs and a legacy-tier
\* file src/<name>.rs that the configured exclusions do not drop
BothTiers ==
    { n \in { PathName(PathParent(p)) :
                  p \in { q \in fs.files : Len(q) = 3 /\ q[3] = s_mod_rs } } :
          /\ <<s_src, n, s_mod_rs>> \in fs.files
          /\ <<s_src, n \o s_dot_rs>> \in fs.files
          /\ ~ _is_excluded(n, config.rust_exclusions \o config.exclude) }

\* C11: the list returned by discover_rust_modules never holds two modules
\* of the same name; when src/<name>/mod.rs and src/<name>.rs both exist and
\* the name is not excluded, the one entry for <name> has the path of the
\* mod.rs file.
C11_PrimaryTierWins ==
    ModulesKnown =>
        /\ \A i, j \in 1..Len(modules) :
               modules[i].name = modules[j].name => i = j
        /\ \A n \in BothTiers :
               /\ Cardinality({ i \in 1..Len(modules) : modules[i].name = n }) = 1
               /\ \A i \in 1..Len(modules) :
                      modules[i].name = n
                          => modules[i].path = <<s_src, n, s_mod_rs>>

\* C11 witness: both tiers hold 'math', enumerated in descending order, and
\* discovery returned the mod.rs entry alone
C11_Witness ==
    /\ v_pc = "modules" /\ listing = "desc"
    /\ s_math \in BothTiers
    /\ modules = <<Module(s_math, <<s_src, s_math, s_mod_rs>>)>>

\* C12: discover_rust_modules returns its modules in ascending order of
\* name, and a call on the same repository and configuration returns the
\* same ordered list whatever order the filesystem enumerates the entries in.
C12_ModulesSortedAndStable ==
    ModulesKnown =>
        /\ \A i, j \in 1..Len(modules) :
               i < j => StrLess(modules[i].name, modules[j].name)
        /\ \A order \in {"asc", "desc"} :
               modules = discover_rust_modules(fs, config, order)

\* C12 witness: a second call (the one validate_rust_tests makes) returned
\* two modules in ascending order from a descending enumeration
C12_Witness ==
    /\ v_pc = "validated" /\ listing = "desc"
    /\ ModuleNames(modules) = <<s_math, s_sanity_a>>

\* discover_rust_tests has returned
TestsKnown == v_pc \in {"tests", "validated", "done", "again"}

\* the .rs entries directly in the test root whose stem starts with neither
\* '_' nor 'dev_'
FlatRsFiles ==
    { p \in Children(fs, config.test_root) :
          /\ EndsWith(PathName(p), s_dot_rs)
          /\ ~ StartsWith(PathStem(p), <<"_">>)
          /\ ~ StartsWith(PathStem(p), <<"d", "e", "v", "_">>) }

\* the tests of the list discovered from the file p
TestsOfPath(p) == { i \in 1..Len(tests) : tests[i].path = p }

\* the stem up to its first underscore is a category name
HasCategoryPrefix(stem) ==
    \E k \in 1..Len(stem) :
        /\ stem[k] = "_"
        /\ \A j \in 1..(k - 1) : stem[j] # "_"
        /\ SubSeq(stem, 1, k - 1) \in valid_categories

\* C13: for every non-excluded .rs file directly in the test root: a stem
\* that is a category name yields a TestFile with that category, no module
\* and is_category_entry = True; otherwise a stem whose part before its first
\* underscore is a category yields a TestFile with that category, the whole
\* remainder as module and is_category_entry = False.
C13_FlatFilesParsed ==
    TestsKnown =>
        \A p \in FlatRsFiles :
            LET stem == PathStem(p)
            IN  /\ stem \in valid_categories =>
                    /\ Cardinality(TestsOfPath(p)) = 1
                    /\ \A i \in TestsOfPath(p) :
                           /\ tests[i].category = stem
                           /\ tests[i].module = None
                           /\ tests[i].is_category_entry = TRUE
                /\ (stem \notin valid_categories /\ HasCategoryPrefix(stem)) =>
                    /\ Cardinality(TestsOfPath(p)) = 1
                    /\ \A i \in TestsOfPath(p) :
                         \E k \in 1..Len(stem) :
                           /\ stem[k] = "_"
                           /\ \A j \in 1..(k - 1) : stem[j] # "_"
                           /\ tests[i].category = SubSeq(stem, 1, k - 1)
                           /\ tests[i].module = SubSeq(stem, k + 1, Len(stem))
                           /\ tests[i].is_category_entry = FALSE

\* C13 witness: tests/sanity.rs came out as the category entry of sanity and
\* tests/uat_sanity_a.rs, a stem with two underscores, as (uat, sanity_a)
C13_Witness ==
    /\ v_pc = "tests"
    /\ \E i, j \in 1..Len(tests) :
          /\ tests[i] = TestFile(<<s_tests, s_sanity_rs>>, s_sanity, None, TRUE)
          /\ tests[j] = TestFile(<<s_tests, s_uat_sanity_a_rs>>, s_uat,
                                 s_sanity_a, FALSE)

\* the .rs entries directly in tests/<category>/ whose stem starts with
\* neither '_' nor 'dev_'
CategoryDirRsFiles(category) ==
    { p \in Children(fs, Append(config.test_root, category)) :
          /\ EndsWith(PathName(p), s_dot_rs)
          /\ ~ StartsWith(PathStem(p), <<"_">>)
          /\ ~ StartsWith(PathStem(p), <<"d", "e", "v", "_">>) }

\* the stem without a leading '<category>_' of the given category
WithoutCategoryPrefix(stem, category) ==
    IF /\ Len(stem) > Len(category)
       /\ SubSeq(stem, 1, Len(category) + 1) = category \o <<"_">>
    THEN SubSeq(stem, Len(category) + 2, Len(stem))
    ELSE stem

\* C14: every non-excluded .rs file inside tests/<category>/ yields a
\* TestFile whose category is the directory's name, never re-parsed from the
\* stem, and whose module is the stem without a leading '<category>_' of
\* that directory, else the whole stem.
C14_CategoryFromDirectory ==
    TestsKnown =>
        \A category \in valid_categories :
            \A p \in CategoryDirRsFiles(category) :
                /\ Cardinality(TestsOfPath(p)) = 1
                /\ \A i \in TestsOfPath(p) :
                       /\ tests[i].category = category
                       /\ tests[i].module =
                              WithoutCategoryPrefix(PathStem(p), category)
                       /\ tests[i].is_category_entry = FALSE

\* C14 witness: tests/sanity/math.rs and tests/sanity/sanity_math.rs both
\* came out as (sanity, math), and tests/sanity/uat_math.rs as
\* (sanity, uat_math)
C14_Witness ==
    /\ v_pc = "tests"
    /\ \E i, j, k \in 1..Len(tests) :
          /\ tests[i] = TestFile(<<s_tests, s_sanity, s_math_rs>>, s_sanity,
                                 s_math, FALSE)
          /\ tests[j] = TestFile(<<s_tests, s_sanity, s_sanity_math_rs>>,
                                 s_sanity, s_math, FALSE)
          /\ tests[k] = TestFile(<<s_tests, s_sanity, s_uat_math_rs>>, s_sanity,
                                 <<"u", "a", "t", "_", "m", "a", "t", "h">>, FALSE)

\* C15: every TestFile returned by discover_rust_tests is either a category
\* entry (is_category_entry true, no module, category one of the nine names)
\* or a per-module test (is_category_entry false, category one of the nine
\* names, module present); none has both category and module absent.
C15_EntryOrModuleTest ==
    TestsKnown =>
        \A i \in 1..Len(tests) :
            /\ \/ /\ tests[i].is_category_entry = TRUE
                  /\ tests[i].module = None
                  /\ tests[i].category \in valid_categories
               \/ /\ tests[i].is_category_entry = FALSE
                  /\ tests[i].category \in valid_categories
                  /\ tests[i].module # None
            /\ ~ (tests[i].category = None /\ tests[i].module = None)

\* C15 witness: a category entry, a per-module test whose module is the
\* empty string (tests/sanity_.rs), and an unparsable file (tests/foo.rs)
\* that yields no TestFile
C15_Witness ==
    /\ v_pc = "tests"
    /\ <<s_tests, s_foo_rs>> \in fs.files
    /\ \E i, j \in 1..Len(tests) :
          /\ tests[i] = TestFile(<<s_tests, s_sanity_rs>>, s_sanity, None, TRUE)
          /\ tests[j] = TestFile(<<s_tests, s_sanity_us_rs>>, s_sanity, <<>>, FALSE)
    /\ Len(tests) = 2

----------------------------------------------------------------------------
(* Claims about validation (SpecVal).                                      *)

\* C16 as stated: two validation passes over the same unchanged repository
\* return equal Violations, every list (missing_category_entries included)
\* holding the same entries in the same order.
C16_PassesAgree ==
    v_pc = "again" => violations = first_violations

----------------------------------------------------------------------------
(* Claims about structural errors of the run command (SpecRun).            *)

\* C17 as stated: a structural / config error is fatal with exit code 127
\* before any validation or test execution: cmd_run returns 127 when no
\* repository root is found and when the manifest the configured language
\* requires is absent (rust configured, Cargo.toml missing), without reaching
\* the gate or the runner.
C17_StructuralErrorsFatal ==
    (r_pc # "start" /\ (~ repo_found \/ ~ Exists(fs, <<s_Cargo_toml>>))) =>
        /\ r_pc = "done" /\ returned = 127
        /\ ~ validated
        /\ runner_calls = 0

\* testpy's validate_rust_tests has returned
Validated == v_pc \in {"validated", "done", "again"}

\* the .rs entries directly in the test root
AllFlatRsFiles ==
    { p \in Children(fs, config.test_root) : EndsWith(PathName(p), s_dot_rs) }

\* the stem is neither a category name nor a category, an underscore and a
\* (possibly empty) module part
BreaksStemRule(stem) ==
    stem \notin valid_categories /\ ~ HasCategoryPrefix(stem)

\* C18 as stated: after validate_rust_tests the naming list holds the
\* repo-relative path of a .rs file directly in the test root if and only if
\* its stem breaks the stem rule, each such file being listed exactly once.
C18_NamingIffStemRule ==
    Validated =>
        \A p \in AllFlatRsFiles :
            Count(violations.naming, PathStr(p)) =
                (IF BreaksStemRule(PathStem(p)) THEN 1 ELSE 0)

\* C18: after validate_rust_tests the naming list holds the repo-relative
\* path of a .rs file directly in the test root if and only if its stem does
\* not start with '_' or 'dev_' and breaks the stem rule; each such file is
\* listed exactly once, and the list holds nothing else.
C18_NamingIffNotSkipped ==
    Validated =>
        /\ \A p \in AllFlatRsFiles :
               Count(violations.naming, PathStr(p)) =
                   (IF p \in FlatRsFiles /\ BreaksStemRule(PathStem(p))
                    THEN 1 ELSE 0)
        /\ \A i \in 1..Len(violations.naming) :
               \E p \in AllFlatRsFiles : violations.naming[i] = PathStr(p)

\* C18 witness: tests/foo.rs is listed, tests/dev_x.rs (skipped) and
\* tests/sanity_.rs (category and empty module part) are not
C18_Witness ==
    /\ v_pc = "validated"
    /\ {<<s_tests, s_foo_rs>>, <<s_tests, s_dev_x_rs>>,
        <<s_tests, s_sanity_us_rs>>} \subseteq fs.files
    /\ violations.naming = <<PathStr(<<s_tests, s_foo_rs>>)>>

\* a discovered category-entry test file of category c
HasEntryTest(c) ==
    \E i \in 1..Len(tests) : tests[i].is_category_entry /\ tests[i].category = c

\* tests/<c>.sh exists
HasShFallback(c) ==
    Append(config.test_root, c \o s_dot_sh) \in fs.files \cup fs.dirs

\* C19: after validate_rust_tests, missing_category_entries holds only
\* names of the nine categories; a category is listed, exactly once, if and
\* only if no discovered category-entry test file has that category and no
\* <category>.sh is directly in the test root; when the test root is absent
\* or holds no entry file of either kind, all nine categories are listed.
C19_MissingCategoryIff ==
    Validated =>
        LET missing == violations.missing_category_entries
        IN  /\ \A i \in 1..Len(missing) : missing[i] \in valid_categories
            /\ \A c \in valid_categories :
                   Count(missing, c) =
                       (IF ~ HasEntryTest(c) /\ ~ HasShFallback(c) THEN 1 ELSE 0)
            /\ (\/ config.test_root \notin fs.dirs
                \/ \A c \in valid_categories :
                       ~ HasEntryTest(c) /\ ~ HasShFallback(c))
                   => Len(missing) = 9 /\ Range(missing) = valid_categories

\* C19 witness: tests/sanity.sh stands in for the sanity entry and
\* tests/uat_math.rs is no entry file: the eight other categories are listed
C19_Witness ==
    /\ v_pc = "validated"
    /\ <<s_tests, s_sanity_sh>> \in fs.files
    /\ <<s_tests, s_sanity_rs>> \notin fs.files
    /\ <<s_tests, s_uat_math_rs>> \in fs.files
    /\ Range(violations.missing_category_entries) = valid_categories \ {s_sanity}
    /\ Len(violations.missing_category_entries) = 8

\* C19 witness of the empty case: no test root, all nine categories listed
C19_WitnessAbsent ==
    /\ v_pc = "validated"
    /\ config.test_root \notin fs.dirs \cup fs.files
    /\ Len(violations.missing_category_entries) = 9

\* the .sh entries directly in the test root whose stem is not skipped and
\* breaks the stem rule
ShViolators ==
    { p \in Children(fs, config.test_root) :
          /\ EndsWith(PathName(p), s_dot_sh)
          /\ ~ SkippedStem(PathStem(p))
          /\ BreaksStemRule(PathStem(p)) }

\* every naming entry is an unauthorized-root entry, and every violating
\* .sh file is an unauthorized-root entry and no naming entry
NamingWithinUnauthorized(v) ==
    /\ Range(v.naming) \subseteq Range(v.unauthorized_root)
    /\ \A p \in ShViolators :
           /\ PathStr(p) \in Range(v.unauthorized_root)
           /\ PathStr(p) \notin Range(v.naming)

\* C20: after every validation pass (of testpy, of testrs, and a repeated
\* one) each path of the naming list is also in the unauthorized_root list,
\* and every .sh file directly in the test root that breaks the stem rule
\* of the checks is in unauthorized_root and not in naming.
C20_UnauthorizedSuperset ==
    /\ Validated => NamingWithinUnauthorized(violations)
    /\ v_pc \in {"done", "again"} => NamingWithinUnauthorized(rs_violations)

\* C20 witness: tests/foo.rs is in both lists, tests/bad.sh in
\* unauthorized_root only, for both validators
C20_Witness ==
    /\ v_pc = "done"
    /\ violations.naming = <<PathStr(<<s_tests, s_foo_rs>>)>>
    /\ violations.unauthorized_root =
           <<PathStr(<<s_tests, s_foo_rs>>), PathStr(<<s_tests, s_bad_sh>>)>>
    /\ rs_violations.naming = violations.naming
    /\ rs_violations.unauthorized_root = violations.unauthorized_root

----------------------------------------------------------------------------
(* C21                                                                     *)

\* an immediate subdirectory of the test root under a name that is neither
\* a category nor 'sh', '_archive' or '_adhoc'
IsInvalidDirectory(p) ==
    /\ p \in fs.dirs
    /\ Len(p) = Len(config.test_root) + 1
    /\ SubSeq(p, 1, Len(config.test_root)) = config.test_root
    /\ p[Len(p)] \notin valid_categories \cup {s_sh, s_archive, s_adhoc}

\* C21: after validate_rust_tests, invalid_directories holds the
\* repo-relative path of an immediate subdirectory of the test root if and
\* only if its name is none of the nine categories and none of 'sh',
\* '_archive', '_adhoc'; it holds each such path once, and never a plain
\* file or a nested directory.
C21_InvalidDirectoriesIff ==
    Validated =>
        /\ \A p \in fs.files \cup fs.dirs :
               Count(violations.invalid_directories, PathStr(p)) =
                   (IF IsInvalidDirectory(p) THEN 1 ELSE 0)
        /\ \A i \in 1..Len(violations.invalid_directories) :
               \E p \in fs.dirs : violations.invalid_directories[i] = PathStr(p)

\* C21 witness: tests/bogus is listed; tests/_archive, the nested
\* tests/_archive/bogus and the plain file tests/foo.rs are not
C21_Witness ==
    /\ v_pc = "validated"
    /\ {<<s_tests, s_bogus>>, <<s_tests, s_archive>>,
        <<s_tests, s_archive, s_bogus>>} \subseteq fs.dirs
    /\ <<s_tests, s_foo_rs>> \in fs.files
    /\ violations.invalid_directories = <<PathStr(<<s_tests, s_bogus>>)>>

----------------------------------------------------------------------------
(* Claims about the hub-integration check (SpecHub)                        *)

\* get_hub_packages has returned
PackagesReturned == h_pc \in {"packages", "hub", "again"}

\* validate_hub_integration_tests has returned
HubReturned == h_pc \in {"hub", "again"}

\* a Python list: a finite sequence
IsList(l) == DOMAIN l = 1..Len(l)

\* C22: the hub-integration check is never fatal: whatever the dependency
\* cache (absent, in a directory that cannot be searched, failing to open
\* or to decode, rows of one field, no boundary row) get_hub_packages
\* returns a list, the empty one when the
\* cache is absent, unreadable or has no boundary row, and
\* validate_hub_integration_tests returns a list; without src/deps.rs that
\* list is empty whatever the cache holds.
C22_HubNeverFatal ==
    /\ h_pc # "raised"
    /\ PackagesReturned =>
           /\ IsList(h_packages)
           /\ (~ cache.exists \/ ~ cache.readable
                   \/ row_hub \notin Range(cache.lines))
                  => h_packages = <<>>
    /\ HubReturned =>
           /\ IsList(h_missing)
           /\ <<s_src, s_deps_rs>> \notin fs.files => h_missing = <<>>

\* the part of C22 the code keeps: once get_hub_packages has returned, the
\* list is empty for an absent, unreadable or boundary-less cache, and
\* without src/deps.rs validate_hub_integration_tests returns the empty list
C22_EmptyOnceReturned ==
    /\ (/\ PackagesReturned
        /\ \/ ~ cache.exists
           \/ ~ cache.readable
           \/ row_hub \notin Range(cache.lines))
           => h_packages = <<>>
    /\ (HubReturned /\ <<s_src, s_deps_rs>> \notin fs.files) => h_missing = <<>>

\* the cache file exists and cannot be decoded, src/deps.rs exists, and
\* both functions have returned the empty list
C22_UnreadableIsEmpty ==
    /\ h_pc = "hub"
    /\ cache.exists /\ ~ cache.readable /\ cache.error = "UnicodeDecodeError"
    /\ <<s_src, s_deps_rs>> \in fs.files
    /\ h_packages = <<>>
    /\ h_missing = <<>>

\* without the marker a cache with a hub dependency yields no violation
C22_WitnessNoMarker ==
    /\ h_pc = "hub"
    /\ h_packages = <<s_serde>>
    /\ <<s_src, s_deps_rs>> \notin fs.files
    /\ h_missing = <<>>

----------------------------------------------------------------------------
(* C23                                                                     *)

\* the tab-separated fields of a row
Fields(row) == SplitTab(Strip(row))

\* second field 'hub' and the manifest name somewhere in the line
IsBoundaryRow(row) ==
    /\ Len(Fields(row)) >= 2
    /\ Fields(row)[2] = s_hub
    /\ Contains(row, s_Cargo_toml)

\* index of the first boundary row, 0 without one
FirstBoundary(lines) ==
    IF \E i \in 1..Len(lines) : IsBoundaryRow(lines[i])
    THEN CHOOSE i \in 1..Len(lines) :
             /\ IsBoundaryRow(lines[i])
             /\ \A j \in 1..(i - 1) : ~ IsBoundaryRow(lines[j])
    ELSE 0

\* index of the first row after the boundary b whose first field does not
\* start with the boundary id, Len(lines) + 1 without one
FirstBreak(lines, b) ==
    LET id == Fields(lines[b])[1]
        Breaks(j) == ~ StartsWith(Fields(lines[j])[1], id)
    IN  IF \E j \in (b + 1)..Len(lines) : Breaks(j)
        THEN CHOOSE j \in (b + 1)..Len(lines) :
                 Breaks(j) /\ \A k \in (b + 1)..(j - 1) : ~ Breaks(k)
        ELSE Len(lines) + 1

\* the third fields of the rows between the boundary and the first break
PackagesUntilBreak(lines) ==
    LET b == FirstBoundary(lines)
    IN  IF b = 0 THEN {}
        ELSE { Fields(lines[k])[3] :
                   k \in { i \in (b + 1)..(FirstBreak(lines, b) - 1) :
                               Len(Fields(lines[i])) >= 3 } }

\* the cache file was read to its end
CacheRead == PackagesReturned /\ cache.exists /\ cache.readable

\* C23: in the scan of get_hub_packages, rows before the boundary row
\* contribute nothing, and the first row after the boundary whose first
\* field does not start with the boundary id ends the scan: every returned
\* package is the third field of a row between the boundary and that row.
C23_ScanStopsAtPrefixBreak ==
    CacheRead => Range(h_packages) \subseteq PackagesUntilBreak(cache.lines)

\* the part of C23 the code keeps: without a boundary row, or with the
\* boundary row last, nothing is returned
C23_NothingBeforeBoundary ==
    (/\ CacheRead
     /\ FirstBoundary(cache.lines) \in {0, Len(cache.lines)})
        => h_packages = <<>>

\* a dependency row before the boundary only: nothing is returned
C23_DependencyBeforeBoundary ==
    /\ h_pc = "packages"
    /\ cache.readable
    /\ cache.lines = <<row_serde, row_hub>>
    /\ h_packages = <<>>

----------------------------------------------------------------------------
(* C24                                                                     *)

\* the stem begins with '_' or 'dev_'
HasExclusionPrefix(stem) ==
    \/ (Len(stem) >= 1 /\ SubSeq(stem, 1, 1) = <<"_">>)
    \/ (Len(stem) >= 4 /\ SubSeq(stem, 1, 4) = <<"d", "e", "v", "_">>)

\* the repository without the .rs files under the test root whose stem has
\* an exclusion prefix
WithoutExcludedFiles ==
    [ fs EXCEPT !.files =
          { p \in fs.files :
                ~ (/\ Len(p) > Len(config.test_root)
                   /\ SubSeq(p, 1, Len(config.test_root)) = config.test_root
                   /\ EndsWith(PathName(p), s_dot_rs)
                   /\ HasExclusionPrefix(PathStem(p))) } ]

\* C24: no TestFile returned by discover_rust_tests has a stem that begins
\* with '_' or 'dev_', in the test root or in a category directory; such
\* files satisfy no requirement: missing_sanity, missing_uat and
\* missing_category_entries are what they are without these files.
C24_ExcludedNeverDiscovered ==
    /\ TestsKnown =>
           \A i \in 1..Len(tests) : ~ HasExclusionPrefix(PathStem(tests[i].path))
    /\ v_pc = "validated" =>
           LET v == validate_rust_tests(WithoutExcludedFiles, config, cache,
                                        listing, cat_iter)
           IN  /\ violations.missing_sanity = v.missing_sanity
               /\ violations.missing_uat = v.missing_uat
               /\ violations.missing_category_entries = v.missing_category_entries

\* C24 witness: module dev_x (src/dev_x.rs, under exclusions that keep it)
\* has tests/sanity/dev_x.rs and tests/dev_x.rs only: no test is
\* discovered and dev_x is missing its sanity test
C24_Witness ==
    /\ v_pc = "validated"
    /\ fs.files = {<<s_src, s_dev_x_rs>>, <<s_tests, s_sanity, s_dev_x_rs>>,
                   <<s_tests, s_dev_x_rs>>}
    /\ tests = <<>>
    /\ violations.missing_sanity = <<s_dev_x>>

----------------------------------------------------------------------------
(* C25                                                                     *)

\* the runner process ended by itself and its output has no 'test result:'
EndedWithoutSummary ==
    host.behaviour = "exits" /\ ~ Contains(host.output, s_test_result)

\* C25: when the runner process ends normally and its output holds no
\* parsable summary, run_cargo_test does not raise and returns all counts
\* zero with the exit code of the process; every returned TestResult has
\* total == passed + failed + ignored and success iff exit_code == 0.
C25_NoSummaryKeepsReturnCode ==
    /\ (runner_calls > 0 /\ EndedWithoutSummary) =>
           /\ r_pc \in {"ran", "done"}
           /\ ZeroCounts(result)
           /\ result.exit_code = host.returncode
    /\ RunnerReturned =>
           /\ result.total = result.passed + result.failed + result.ignored
           /\ success(result) <=> result.exit_code = 0

\* the part of C25 the code keeps: without a summary run_cargo_test does
\* not raise and the counts are zero; the total is the sum of the counts and
\* success holds iff exit_code == 0
C25_NoSummaryZeroCounts ==
    /\ (runner_calls > 0 /\ EndedWithoutSummary) =>
           (r_pc \in {"ran", "done"} /\ ZeroCounts(result))
    /\ RunnerReturned =>
           /\ result.total = result.passed + result.failed + result.ignored
           /\ success(result) <=> result.exit_code = 0

\* a compile error: no summary, the exit code 101 of the process is returned
C25_CompileErrorKeepsCode ==
    /\ r_pc = "ran"
    /\ host.behaviour = "exits"
    /\ host.output = out_no_summary
    /\ ZeroCounts(result)
    /\ result.exit_code = 101

\* the process exits 0 after printing 'finished in 1.2.3s' and no summary:
\* exit_code 1 is returned
C25_BadDurationReturnsOne ==
    /\ r_pc = "ran"
    /\ host.behaviour = "exits"
    /\ host.returncode = 0
    /\ host.output = out_only_bad_duration
    /\ result.exit_code = 1

----------------------------------------------------------------------------
(* C26                                                                     *)

\* validation has returned violations and --override is set
OverriddenViolations ==
    ~ args.skip_enforcement /\ args.override /\ validated
        /\ ~ rs_is_valid(rs_violations)

\* C26: with --override and violations present cmd_run goes on to the test
\* runner, and what it returns is decided by the test result alone: 0 when
\* the tests succeed, 2 otherwise, never 1; with --skip-enforcement no
\* validation is made before the runner is invoked, nor after it.
C26_OverrideRunsTests ==
    /\ OverriddenViolations =>
           /\ runner_calls = 0 => r_pc = "run"
           /\ r_pc = "done" =>
                  /\ runner_calls = 1
                  /\ returned = (IF result.exit_code = 0 THEN 0 ELSE 2)
    /\ args.skip_enforcement =>
           /\ ~ validated
           /\ rs_violations = RsViolations
           /\ r_pc = "done" /\ repo_found => runner_calls = 1

\* C26 witness: violations were overridden, the tests failed, 2 is returned
C26_Witness ==
    /\ OverriddenViolations
    /\ r_pc = "done"
    /\ runner_calls = 1
    /\ result.exit_code = 101
    /\ returned = 2

\* with --skip-enforcement a badly organized repository is run unvalidated
C26_WitnessSkip ==
    /\ args.skip_enforcement
    /\ ~ rs_is_valid(rs_validate_rust_tests(fs, config, listing, cat_iter))
    /\ r_pc = "done"
    /\ runner_calls = 1
    /\ returned = 0

----------------------------------------------------------------------------
(* C27                                                                     *)

\* the path is listed in the naming violations
InNaming(p) == PathStr(p) \in Range(violations.naming)

\* C27: after a validation pass, every .rs file directly in the test root
\* whose stem starts with neither '_' nor 'dev_' is either returned by
\* discover_rust_tests or listed in naming, never both and never neither;
\* a file whose stem starts with '_' or 'dev_' is in neither and is not in
\* unauthorized_root.
C27_DiscoveredXorNaming ==
    Validated =>
        \A p \in AllFlatRsFiles :
            IF p \in FlatRsFiles
            THEN (TestsOfPath(p) # {}) <=> ~ InNaming(p)
            ELSE /\ TestsOfPath(p) = {}
                 /\ ~ InNaming(p)
                 /\ PathStr(p) \notin Range(violations.unauthorized_root)

\* C27 witness: tests/sanity_math.rs is discovered and not listed,
\* tests/foo.rs is listed and not discovered, tests/dev_x.rs is neither
C27_Witness ==
    /\ v_pc = "validated"
    /\ fs.files = {<<s_tests, s_sanity_math_rs>>, <<s_tests, s_foo_rs>>,
                   <<s_tests, s_dev_x_rs>>}
    /\ Len(tests) = 1
    /\ tests[1].path = <<s_tests, s_sanity_math_rs>>
    /\ violations.naming = <<PathStr(<<s_tests, s_foo_rs>>)>>
    /\ violations.unauthorized_root = violations.naming

----------------------------------------------------------------------------
(* C28                                                                     *)

\* both validators have returned
BothValidated == v_pc \in {"done", "again"}

C28_BothValid ==
    /\ v_pc = "done"
    /\ is_valid(violations)
    /\ rs_is_valid(rs_violations)

\* the verdicts differ when only the hub list is filled
C28_HubOnlyDiffers ==
    /\ v_pc = "done"
    /\ violations.missing_hub_integration # <<>>
    /\ rs_total(rs_violations) + 1 = total(violations)

----------------------------------------------------------------------------
(* C29                                                                     *)

\* the packages of h_packages without tests/integration/hub_<package>.rs,
\* when src/deps.rs exists
MissingAtFixedLocations ==
    IF <<s_src, s_deps_rs>> \notin fs.files \cup fs.dirs THEN {}
    ELSE { h_packages[i] : i \in
             { j \in 1..Len(h_packages) :
                   <<s_tests, s_integration, s_hub_ \o h_packages[j] \o s_dot_rs>>
                       \notin fs.files \cup fs.dirs } }

\* strictly ascending: sorted and without duplicates
StrictlyAscending(l) ==
    \A i, j \in 1..Len(l) : i < j => (StrLeq(l[i], l[j]) /\ l[i] # l[j])

\* C29: the hub-integration check reads src/deps.rs and
\* tests/integration/hub_<package>.rs only: its result is the packages
\* without a test at that fixed place, sorted by name and without
\* duplicates, and a validation pass under a Config with another test_root
\* and features_root returns the same missing_hub_integration.
C29_HubReadsFixedLocations ==
    /\ HubReturned =>
           /\ Range(h_missing) = MissingAtFixedLocations
           /\ StrictlyAscending(h_missing)
    /\ h_pc = "again" => h_again = h_missing

\* C29 witness: under test_root 't' and features_root 'lib', with
\* t/integration/hub_serde.rs in place, serde is still missing; the cache
\* names serde twice and regex after it
C29_Witness ==
    /\ h_pc = "again"
    /\ config = OtherRootsConfig
    /\ fs.files = {<<s_src, s_deps_rs>>, <<s_t, s_integration, s_hub_serde_rs>>}
    /\ cache.lines = <<row_hub, row_serde, row_regex, row_serde>>
    /\ h_again = <<s_regex, s_serde>>

----------------------------------------------------------------------------
(* C30                                                                     *)

\* the sort key of a TestFile: (category or "", module or "")
TestKey(t) ==
    << (IF t.category = None THEN <<>> ELSE t.category),
       (IF t.module = None THEN <<>> ELSE t.module) >>

\* key <= key, field by field
KeyLeq(a, b) ==
    \/ StrLess(a[1], b[1])
    \/ (a[1] = b[1] /\ StrLeq(a[2], b[2]))

\* the list in non-decreasing order of the key
SortedByKey(ts) ==
    \A i, j \in 1..Len(ts) : i < j => KeyLeq(TestKey(ts[i]), TestKey(ts[j]))

\* no two tests of the list have the same key
DistinctKeys(ts) ==
    \A i, j \in 1..Len(ts) : i # j => TestKey(ts[i]) # TestKey(ts[j])

\* what discover_rust_tests returns under another enumeration order of the
\* filesystem and another iteration order of the category set
TestsUnder(order, cats) == discover_rust_tests(fs, config, order, cats)

\* C30 as stated: discover_rust_tests returns its list in non-decreasing
\* order of the key (category or '', module or ''), and the list is the same
\* for every enumeration order of the filesystem and every iteration order
\* of the category set, also when several files have the same key.
C30_TestsOrderIndependent ==
    TestsKnown =>
        /\ SortedByKey(tests)
        /\ \A order \in {"asc", "desc"}, cats \in CatOrders :
               TestsUnder(order, cats) = tests

\* the part of C30 the code keeps: the list is sorted by the key, holds the
\* same TestFiles under every order, is the same list under every iteration
\* order of the category set, and under every enumeration order when no two
\* files share a key
C30_SortedAndSameTests ==
    TestsKnown =>
        /\ SortedByKey(tests)
        /\ \A order \in {"asc", "desc"}, cats \in CatOrders :
               /\ Range(TestsUnder(order, cats)) = Range(tests)
               /\ Len(TestsUnder(order, cats)) = Len(tests)
               /\ TestsUnder(listing, cats) = tests
               /\ DistinctKeys(tests) => TestsUnder(order, cats) = tests

\* three files of key (sanity, math): under the ascending enumeration
\* tests/sanity/math.rs comes before tests/sanity/sanity_math.rs
C30_TiesFollowEnumeration ==
    /\ v_pc = "tests"
    /\ listing = "asc"
    /\ Len(tests) = 3
    /\ tests[1].path = <<s_tests, s_sanity_math_rs>>
    /\ tests[2].path = <<s_tests, s_sanity, s_math_rs>>
    /\ tests[3].path = <<s_tests, s_sanity, s_sanity_math_rs>>
    /\ TestsUnder("desc", cat_iter)[2].path = <<s_tests, s_sanity, s_sanity_math_rs>>

====
